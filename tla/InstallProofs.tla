---------------------------- MODULE InstallProofs ----------------------------
(***************************************************************************)
(* Theorems about Install, for every chain.toml, every set of              *)
(* architectures and every pulley.  The inductive invariant says what the  *)
(* two loops of install_chain have done after n links (LoadInv, WireInv),  *)
(* given that the chain they work on is one that chainsmith sealed.        *)
(***************************************************************************)
EXTENDS Install, ChainsmithProofs

\* pulley has no chain, or one that chainsmith sealed.
ChainInv ==
  \/ chain = NoChain /\ client \in {"get", "error", "no_server"}
  \/ Sealed(chain) /\ client \notin {"get", "no_server"}

\* The functions the current loop has come by.
Seen(i) == {chain.links[j] : j \in 1..i}

\* root_idx, after the loader has seen the functions of S.
RootSeen(S) ==
  \/ root = NoNf /\ \A f \in S : ~chain.link[f].root
  \/ root \in S /\ chain.link[root].root

EmptyTables ==
  /\ link_states = <<>>
  /\ instance_ids = <<>>
  /\ prog_id = <<>>
  /\ acts_map = <<>>
  /\ progs_map = <<>>

LoadInv ==
  /\ \A f \in progs :
       raw_maps[f] = Cardinality(cfg.maps[f]) /\ \A m \in cfg.maps[f] : m.plain
  /\ client = "get" =>
       n = 0 /\ root = NoNf /\ progs = {} /\ raw_maps = <<>> /\ EmptyTables
  /\ client = "load" =>
       /\ progs = Seen(n) \cap XdpBins
       /\ RootSeen(Seen(n))
       /\ EmptyTables

\* What WireLink stores for f.
ActsOfNf(f) ==
  [o \in 0..(chain.slots[f] - 1) |->
     IF o < Len(chain.link[f].state.acts) THEN ToKind(chain.link[f].state.acts[o + 1]) ELSE 0]

JumpsOf(f) ==
  {j \in 1..Len(chain.link[f].state.acts) : chain.link[f].state.acts[j].kind = "tailcall"}

ProgsOfNf(f) == [o \in {j - 1 : j \in JumpsOf(f)} |-> chain.link[f].state.acts[o + 1].nf]

\* The maps of f are filled, and f has one of the first i ids.
WiredNf(f, i) ==
  /\ f \in DOMAIN acts_map
  /\ acts_map[f] = ActsOfNf(f)
  /\ progs_map[f] = ProgsOfNf(f)
  /\ prog_id[f] \in 0..(i - 1)
  /\ prog_id[f] \in DOMAIN instance_ids
  /\ instance_ids[prog_id[f]] = f
  /\ Len(chain.link[f].state.acts) <= chain.slots[f]

Wiring ==
  /\ progs = XdpBins
  /\ RootSeen(cfg.functions)
  /\ \A f \in Seen(n) :
       /\ f \in DOMAIN link_states
       /\ link_states[f] = chain.link[f].state
       /\ f \in progs => chain.link[f].state.tail \/ WiredNf(f, n)

WireInv == client \in {"wire", "dylibs", "run", "io_error"} => Wiring

\* Attached, and what comes after: every link has been handled.
AttachedInv ==
  /\ client \in {"dylibs", "run", "io_error"} => n = Len(chain.links) /\ root \in progs
  /\ attached # NoNf => client \in {"dylibs", "run"} /\ attached = root
  /\ client \in {"dylibs", "run"} => attached = root
  /\ client = "run" => dylibs = cfg.functions

\* The causes RefusalExplained allows for.
Fault ==
  \E f \in cfg.functions :
    \/ LinkedTwice(f)
    \/ f \in cfg.disable_xdp /\ chain.link[f].root
    \/ \E m \in cfg.maps[f] : ~m.plain
    \/ f \in cfg.bad_seed \ cfg.disable_xdp

ClientInv ==
  /\ InstallTypeOK
  /\ ChainInv
  /\ LoadInv
  /\ WireInv
  /\ AttachedInv
  /\ RefusalExplained

InstallInv == ServerInv /\ ClientInv
-----------------------------------------------------------------------------
(***************************************************************************)
(* The chain that is installed.                                            *)
(***************************************************************************)

\* The links of a sealed message are the functions, in some order; its binaries
\* are what the file says.
LEMMA MessageFacts ==
  ASSUME cfg \in Config, NEW c, Sealed(c)
  PROVE  /\ Len(c.links) \in Nat
         /\ \A j \in 1..Len(c.links) : c.links[j] \in cfg.functions
         /\ {c.links[j] : j \in 1..Len(c.links)} = cfg.functions
         /\ DOMAIN c.nfs = cfg.functions
         /\ \A f \in cfg.functions :
              /\ c.nfs[f].ebpf <=> f \in XdpBins
              /\ c.nfs[f].elf
              /\ c.nfs[f].symbols = {ScreamingSnake(m) : m \in cfg.maps[f]}
              /\ c.link[f].map_names = cfg.maps[f]
              /\ c.link[f].root \in BOOLEAN
         /\ c # NoChain
<1>1. Cardinality(cfg.functions) \in Nat
  BY FileFacts, FS_CardinalityType
<1>2. /\ c.links \in [1..Cardinality(cfg.functions) -> cfg.functions]
      /\ \A f \in cfg.functions : \E j \in 1..Cardinality(cfg.functions) : c.links[j] = f
  BY DEF Sealed, Orders
<1>3. Len(c.links) = Cardinality(cfg.functions)
  BY <1>1, <1>2
<1>4. /\ Len(c.links) \in Nat
      /\ \A j \in 1..Len(c.links) : c.links[j] \in cfg.functions
  BY <1>1, <1>2, <1>3
<1>5. {c.links[j] : j \in 1..Len(c.links)} = cfg.functions
  BY <1>2, <1>3, <1>4
<1>6. DOMAIN c.nfs = cfg.functions
  BY DEF Sealed, Payloads
<1>7. ASSUME NEW f \in cfg.functions
      PROVE  /\ c.nfs[f].ebpf <=> f \in XdpBins
             /\ c.nfs[f].elf
             /\ c.nfs[f].symbols = {ScreamingSnake(m) : m \in cfg.maps[f]}
  <2>1. c.nfs[f] = Payload(f, TRUE)
    BY DEF Sealed, Payloads
  <2>2. Payload(f, TRUE).elf /\ (Payload(f, TRUE).ebpf <=> f \in XdpBins)
    BY DEF Payload
  <2>3. Payload(f, TRUE).symbols = {ScreamingSnake(m) : m \in cfg.maps[f]}
    BY DEF Payload
  <2>4. QED
    BY <2>1, <2>2, <2>3
<1>8. ASSUME NEW f \in cfg.functions
      PROVE  c.link[f].map_names = cfg.maps[f] /\ c.link[f].root \in BOOLEAN
  <2>1. c.link[f] = LinkOf(f, c.link[f].state, c.link[f].root) /\ c.link[f].root \in BOOLEAN
    BY DEF Sealed, LinkShape
  <2>2. QED
    BY <2>1, LinkFields
<1>9. c # NoChain
  <2>1. PICK g \in cfg.functions : TRUE
    BY DEF Sealed
  <2>2. PICK j \in 1..Len(c.links) : c.links[j] = g
    BY <1>5, <2>1
  <2>3. Len(NoChain.links) = 0
    BY DEF NoChain
  <2>4. Len(c.links) # 0
    BY <1>4, <2>2
  <2>5. QED
    BY <2>3, <2>4
<1>10. QED
  BY <1>4, <1>5, <1>6, <1>7, <1>8, <1>9

\* The tables and the lists of actions have sizes.
LEMMA SealedLengths ==
  ASSUME cfg \in Config, NEW c, Sealed(c), NEW f \in cfg.functions
  PROVE  Len(c.link[f].state.acts) \in Nat /\ c.slots[f] \in Nat
<1>1. c.slots[f] \in Nat
  <2>1. IsFiniteSet(cfg.variants[f]) /\ Cardinality(cfg.variants[f]) <= LargestEnum
    BY ChainsmithAssumption
  <2>2. Cardinality(cfg.variants[f]) \in Nat
    BY <2>1, FS_CardinalityType
  <2>3. c.slots[f] = NextPowerOfTwo(Cardinality(cfg.variants[f]))
    BY DEF Sealed, Sized, Castable, ReturnLen
  <2>4. QED
    BY <2>1, <2>2, <2>3, PowerFacts
<1>2. Len(c.link[f].state.acts) \in Nat
  BY SealedActs
<1>3. QED
  BY <1>1, <1>2

\* What the two loops have done stays true while they are not at work.
LEMMA TablesKept ==
  ASSUME cfg' = cfg, UNCHANGED <<chain, n, root, progs, tables>>
  PROVE  /\ Wiring' <=> Wiring
         /\ Sealed(chain)' <=> Sealed(chain)
         /\ Fault' <=> Fault
<1>1. UNCHANGED <<raw_maps, link_states, instance_ids, prog_id, acts_map, progs_map>>
  BY DEF tables
<1>2. XdpBins' = XdpBins
  BY FileKept
<1>3. Seen(n)' = Seen(n) /\ (RootSeen(cfg.functions)' <=> RootSeen(cfg.functions))
  BY DEF Seen, RootSeen
<1>4. ASSUME NEW f PROVE WiredNf(f, n)' <=> WiredNf(f, n)
  <2>1. ActsOfNf(f)' = ActsOfNf(f) /\ ProgsOfNf(f)' = ProgsOfNf(f)
    BY DEF ActsOfNf, ProgsOfNf, JumpsOf
  <2>2. QED
    BY <1>1, <2>1 DEF WiredNf
<1>5. Wiring' <=> Wiring
  BY <1>1, <1>2, <1>3, <1>4 DEF Wiring
<1>6. Sealed(chain)' <=> Sealed(chain)
  BY SealedKept
<1>7. Fault' <=> Fault
  BY FileKept DEF Fault, LinkedTwice
<1>8. QED
  BY <1>5, <1>6, <1>7
-----------------------------------------------------------------------------
(***************************************************************************)
(* Every step of pulley keeps its invariant.                               *)
(***************************************************************************)

\* An error leaves main; its cause is a fault of the file when it is about the
\* chain.
LEMMA GiveUpKeeps ==
  ASSUME ClientInv, cfg' = cfg,
         NEW how \in {"error", "no_server", "refused", "io_error", "seed_panic", "panic"},
         GiveUp(how),
         how = "no_server" => client = "get",
         how \in {"refused", "io_error", "seed_panic", "panic"} => client # "get",
         how = "io_error" => client = "dylibs",
         client \notin {"no_server", "error"},
         how \in {"error", "seed_panic", "panic"} /\ Sealed(chain) => Fault
  PROVE  ClientInv'
<1>1. /\ client' = how /\ attached' = NoNf
      /\ UNCHANGED <<chain, n, root, progs, tables, dylibs>>
  BY DEF GiveUp
<1>2. InstallTypeOK'
  BY <1>1 DEF ClientInv, InstallTypeOK, ClientPhases, tables
<1>3. ChainInv'
  BY <1>1, TablesKept DEF ClientInv, ChainInv
<1>4. LoadInv'
  BY <1>1 DEF ClientInv, LoadInv, tables
<1>5. WireInv'
  BY <1>1, TablesKept DEF ClientInv, WireInv
<1>6. AttachedInv'
  BY <1>1 DEF ClientInv, AttachedInv
<1>7. RefusalExplained'
  <2>1. how \in {"error", "seed_panic", "panic"} /\ chain # NoChain => Fault'
    BY <1>1, TablesKept DEF ClientInv, ChainInv
  <2>2. QED
    BY <1>1, <2>1 DEF RefusalExplained, ServedInstalls, Fault
<1>8. QED
  BY <1>2, <1>3, <1>4, <1>5, <1>6, <1>7 DEF ClientInv

\* The chain that arrives is one that was sealed.
LEMMA GetChainKeeps ==
  ASSUME ServerInv, ClientInv, UNCHANGED serverVars, GetChain
  PROVE  ClientInv'
<1>0. cfg' = cfg /\ cfg \in Config
  BY DEF serverVars, ServerInv, ServerTypeOK
<1>1. CASE Target \in DOMAIN served
  <2>1. /\ client = "get" /\ client' = "load" /\ chain' = served[Target]
        /\ UNCHANGED <<n, root, progs, raw_maps, link_states, instance_ids, prog_id, acts_map,
                       progs_map, attached, dylibs>>
    BY <1>1 DEF GetChain, tables
  <2>2. n = 0 /\ root = NoNf /\ progs = {} /\ raw_maps = <<>> /\ EmptyTables
    BY <2>1 DEF ClientInv, LoadInv
  <2>3. Sealed(served[Target])
    BY <1>1 DEF ServerInv, ServedInv
  <2>4. Sealed(chain)'
    <3>1. Sealed(chain') <=> Sealed(chain)'
      BY <1>0, SealedKept
    <3>2. QED
      BY <2>1, <2>3, <3>1
  <2>5. Len(chain'.links) \in Nat
    BY <1>0, <2>1, <2>3, MessageFacts
  <2>6. attached = NoNf
    BY <2>1 DEF ClientInv, AttachedInv
  <2>7. InstallTypeOK'
    BY <1>0, <2>1, <2>2, <2>5, <2>6 DEF ClientInv, InstallTypeOK, ClientPhases
  <2>8. ChainInv'
    BY <2>1, <2>4 DEF ChainInv
  <2>9. LoadInv'
    <3>1. Seen(n)' = {}
      BY <2>1, <2>2 DEF Seen
    <3>2. EmptyTables'
      BY <2>1, <2>2 DEF EmptyTables
    <3>3. QED
      BY <2>1, <2>2, <3>1, <3>2 DEF LoadInv, RootSeen
  <2>10. WireInv' /\ AttachedInv' /\ RefusalExplained'
    BY <2>1, <2>6 DEF WireInv, AttachedInv, RefusalExplained, ServedInstalls
  <2>11. QED
    BY <2>7, <2>8, <2>9, <2>10 DEF ClientInv
<1>2. CASE Target \notin DOMAIN served
  <2>1. client = "get" /\ GiveUp("error") /\ ~Sealed(chain)
    <3>1. client = "get" /\ GiveUp("error") /\ chain = NoChain
      BY <1>2 DEF GetChain, ClientInv, ChainInv
    <3>2. QED
      BY <1>0, <3>1, MessageFacts
  <2>2. QED
    BY <1>0, <2>1, GiveUpKeeps
<1>3. QED
  BY <1>1, <1>2

\* Without a server there is no chain.
LEMMA LoseServerKeeps ==
  ASSUME ClientInv, cfg' = cfg, LoseServer
  PROVE  ClientInv'
BY GiveUpKeeps DEF LoseServer

\* What the kernel refuses is not about the chain,
LEMMA KernelRefusesKeeps ==
  ASSUME ClientInv, cfg' = cfg, KernelRefuses
  PROVE  ClientInv'
BY GiveUpKeeps DEF KernelRefuses

\* and neither is a shared library that cannot be written or loaded.
LEMMA FailDylibsKeeps ==
  ASSUME ClientInv, cfg' = cfg, FailDylibs
  PROVE  ClientInv'
BY GiveUpKeeps DEF FailDylibs

\* What the loops know of the link they are at.
LEMMA HereFacts ==
  ASSUME cfg \in Config, ClientInv, client \in {"load", "wire"}, n < Len(chain.links)
  PROVE  /\ Sealed(chain) /\ n \in Nat /\ n + 1 \in 1..Len(chain.links)
         /\ Len(chain.links) \in Nat
         /\ Here \in cfg.functions
         /\ Seen(n + 1) = Seen(n) \union {Here}
<1>1. Sealed(chain)
  BY DEF ClientInv, ChainInv
<1>2. /\ Len(chain.links) \in Nat
      /\ \A j \in 1..Len(chain.links) : chain.links[j] \in cfg.functions
  BY <1>1, MessageFacts
<1>3. n \in Nat /\ n + 1 \in 1..Len(chain.links)
  BY <1>2 DEF ClientInv, InstallTypeOK
<1>4. \A j : j \in 1..(n + 1) <=> j \in 1..n \/ j = n + 1
  BY <1>3
<1>5. Seen(n + 1) = Seen(n) \union {Here}
  BY <1>4 DEF Seen, Here
<1>6. QED
  BY <1>1, <1>2, <1>3, <1>5 DEF Here

\* to_ascii_uppercase finds the static that ScreamingSnake named exactly when the
\* name of the map was in snake case.
LEMMA SpellingFacts ==
  ASSUME cfg \in Config, Sealed(chain), NEW f \in cfg.functions
  PROVE  MissingMap(f) <=> \E m \in cfg.maps[f] : ~m.plain
<1>1. /\ chain.link[f].map_names = cfg.maps[f]
      /\ chain.nfs[f].symbols = {ScreamingSnake(m) : m \in cfg.maps[f]}
  BY MessageFacts
<1>2. ASSUME NEW m \in cfg.maps[f]
      PROVE  ToAsciiUppercase(m) \in {ScreamingSnake(w) : w \in cfg.maps[f]} <=> m.plain
  <2>1. m.plain \in BOOLEAN
    BY ChainsmithAssumption
  <2>2. CASE m.plain = TRUE
    <3>1. ToAsciiUppercase(m) = ScreamingSnake(m)
      BY <2>2 DEF ToAsciiUppercase, ScreamingSnake
    <3>2. QED
      BY <2>2, <3>1
  <2>3. CASE m.plain = FALSE
    <3>1. ToAsciiUppercase(m).split = FALSE /\ \A w : ScreamingSnake(w).split = TRUE
      BY <2>3 DEF ToAsciiUppercase, ScreamingSnake
    <3>2. QED
      BY <2>3, <3>1
  <2>4. QED
    BY <2>1, <2>2, <2>3
<1>3. QED
  BY <1>1, <1>2 DEF MissingMap

\* The loader: what it does with a link, whether the program is loaded or skipped.
LEMMA LoadStepKeeps ==
  ASSUME cfg \in Config, ClientInv, cfg' = cfg,
         client = "load", n < Len(chain.links), NoteRoot, n' = n + 1,
         UNCHANGED <<client, chain, link_states, instance_ids, prog_id, acts_map, progs_map,
                     attached, dylibs>>,
         \/ Here \notin XdpBins /\ UNCHANGED <<progs, raw_maps>>
         \/ /\ Here \in XdpBins
            /\ \A m \in cfg.maps[Here] : m.plain
            /\ progs' = progs \union {Here}
            /\ raw_maps' = Insert(raw_maps, Here, Cardinality(cfg.maps[Here]))
  PROVE  ClientInv'
<1>1. /\ Sealed(chain) /\ n \in Nat /\ n + 1 \in 1..Len(chain.links)
      /\ Len(chain.links) \in Nat
      /\ Here \in cfg.functions
      /\ Seen(n + 1) = Seen(n) \union {Here}
  BY HereFacts
<1>2. Sealed(chain)'
  BY <1>1, SealedKept
<1>3. XdpBins' = XdpBins /\ Seen(n)' = Seen(n + 1)
  BY FileKept DEF Seen
<1>4. progs' = Seen(n)' \cap XdpBins'
  BY <1>1, <1>3 DEF ClientInv, LoadInv
<1>5. RootSeen(Seen(n))'
  <2>1. RootSeen(Seen(n)) /\ root' = IF chain.link[Here].root THEN Here ELSE root
    BY DEF ClientInv, LoadInv, NoteRoot
  <2>2. chain'.link = chain.link
    OBVIOUS
  <2>3. QED
    BY <1>1, <1>3, <2>1, <2>2 DEF RootSeen
<1>6. /\ DOMAIN raw_maps' = progs'
      /\ \A f \in progs' :
           raw_maps'[f] = Cardinality(cfg'.maps[f]) /\ \A m \in cfg'.maps[f] : m.plain
  <2>1. /\ DOMAIN raw_maps = progs
        /\ \A f \in progs :
             raw_maps[f] = Cardinality(cfg.maps[f]) /\ \A m \in cfg.maps[f] : m.plain
    BY DEF ClientInv, InstallTypeOK, LoadInv
  <2>2. CASE Here \notin XdpBins /\ UNCHANGED <<progs, raw_maps>>
    BY <2>1, <2>2
  <2>3. CASE /\ \A m \in cfg.maps[Here] : m.plain
             /\ progs' = progs \union {Here}
             /\ raw_maps' = Insert(raw_maps, Here, Cardinality(cfg.maps[Here]))
    <3>1. /\ DOMAIN raw_maps' = progs \union {Here}
          /\ raw_maps'[Here] = Cardinality(cfg.maps[Here])
          /\ \A x \in progs : x # Here => raw_maps'[x] = raw_maps[x]
      BY <2>1, <2>3 DEF Insert
    <3>2. QED
      BY <2>1, <2>3, <3>1
  <2>4. QED
    BY <2>2, <2>3
<1>7. LoadInv'
  <2>1. EmptyTables'
    BY DEF ClientInv, LoadInv, EmptyTables
  <2>2. QED
    BY <1>4, <1>5, <1>6, <2>1 DEF LoadInv
<1>8. attached = NoNf
  BY DEF ClientInv, AttachedInv
<1>9. InstallTypeOK'
  <2>1. progs' \subseteq cfg.functions /\ root' \in cfg.functions \union {NoNf}
    BY <1>1 DEF ClientInv, InstallTypeOK, NoteRoot
  <2>2. n' \in 0..Len(chain'.links)
    BY <1>1
  <2>3. QED
    BY <1>6, <1>8, <2>1, <2>2 DEF ClientInv, InstallTypeOK
<1>10. ChainInv' /\ WireInv' /\ AttachedInv' /\ RefusalExplained'
  BY <1>2, <1>8 DEF ChainInv, WireInv, AttachedInv, RefusalExplained, ServedInstalls
<1>11. QED
  BY <1>7, <1>9, <1>10 DEF ClientInv

\* The loader passes over a function that only exists in userland.
LEMMA SkipLinkKeeps ==
  ASSUME cfg \in Config, ClientInv, cfg' = cfg, SkipLink
  PROVE  ClientInv'
<1>1. client = "load" /\ n < Len(chain.links) /\ ~chain.nfs[Here].ebpf
  BY DEF SkipLink
<1>2. Here \notin XdpBins
  BY <1>1, HereFacts, MessageFacts
<1>3. QED
  BY <1>1, <1>2, LoadStepKeeps DEF SkipLink, tables

\* The loader finds every map of a program it loads.
LEMMA LoadLinkKeeps ==
  ASSUME cfg \in Config, ClientInv, cfg' = cfg, LoadLink
  PROVE  ClientInv'
<1>1. client = "load" /\ n < Len(chain.links) /\ chain.nfs[Here].ebpf
  BY DEF LoadLink
<1>2. Here \in XdpBins /\ chain.link[Here].map_names = cfg.maps[Here]
  BY <1>1, HereFacts, MessageFacts
<1>3. \A m \in cfg.maps[Here] : m.plain
  BY <1>1, HereFacts, SpellingFacts DEF LoadLink
<1>4. QED
  BY <1>1, <1>2, <1>3, LoadStepKeeps DEF LoadLink

\* MissingMap: the two sides spell the name of a map differently.
LEMMA FailLoadKeeps ==
  ASSUME cfg \in Config, ClientInv, cfg' = cfg, FailLoad
  PROVE  ClientInv'
<1>1. /\ client = "load" /\ n < Len(chain.links) /\ GiveUp("error")
      /\ Here \in DOMAIN chain.nfs => chain.nfs[Here].ebpf /\ MissingMap(Here)
  BY DEF FailLoad
<1>2. Sealed(chain) /\ Here \in cfg.functions
  BY <1>1, HereFacts
<1>3. Here \in DOMAIN chain.nfs
  BY <1>2, MessageFacts
<1>4. Fault
  BY <1>1, <1>2, <1>3, SpellingFacts DEF Fault
<1>5. QED
  BY <1>1, <1>4, GiveUpKeeps

\* The test code panics over a map of a program that was loaded.
LEMMA FailSeedKeeps ==
  ASSUME cfg \in Config, ClientInv, cfg' = cfg, FailSeed
  PROVE  ClientInv'
<1>1. client = "load" /\ n = Len(chain.links) /\ GiveUp("seed_panic")
  BY DEF FailSeed
<1>2. PICK f : f \in progs /\ f \in cfg.bad_seed
  BY DEF FailSeed, Unseedable
<1>3. f \in XdpBins
  BY <1>1, <1>2 DEF ClientInv, LoadInv
<1>4. Fault
  BY <1>2, <1>3 DEF Fault, XdpBins
<1>5. QED
  BY <1>1, <1>4, GiveUpKeeps

\* The loader has come to the end: every program is loaded and the root known.
LEMMA EndLoadKeeps ==
  ASSUME cfg \in Config, ClientInv, cfg' = cfg, EndLoad
  PROVE  ClientInv'
<1>1. /\ client = "load" /\ n = Len(chain.links) /\ client' = "wire" /\ n' = 0
      /\ UNCHANGED <<chain, root, progs, raw_maps, link_states, instance_ids, prog_id, acts_map,
                     progs_map, attached, dylibs>>
  BY DEF EndLoad, tables
<1>2. Sealed(chain)
  BY <1>1 DEF ClientInv, ChainInv
<1>3. Seen(n) = cfg.functions /\ Len(chain.links) \in Nat
  BY <1>1, <1>2, MessageFacts DEF Seen
<1>4. progs = XdpBins /\ RootSeen(cfg.functions)
  BY <1>1, <1>3 DEF ClientInv, LoadInv, XdpBins
<1>5. Wiring'
  <2>1. Seen(n)' = {}
    BY <1>1 DEF Seen
  <2>2. RootSeen(cfg.functions)'
    BY <1>1, <1>4 DEF RootSeen
  <2>3. QED
    BY <1>1, <1>4, <2>1, <2>2, FileKept DEF Wiring
<1>6. InstallTypeOK'
  BY <1>1, <1>3 DEF ClientInv, InstallTypeOK, ClientPhases
<1>7. Sealed(chain)'
  BY <1>1, <1>2, SealedKept
<1>8. /\ attached = NoNf
      /\ \A f \in progs :
           raw_maps[f] = Cardinality(cfg.maps[f]) /\ \A m \in cfg.maps[f] : m.plain
  BY <1>1 DEF ClientInv, AttachedInv, LoadInv
<1>9. ChainInv' /\ LoadInv' /\ WireInv' /\ AttachedInv' /\ RefusalExplained'
  BY <1>1, <1>5, <1>7, <1>8
     DEF ChainInv, LoadInv, WireInv, AttachedInv, RefusalExplained, ServedInstalls
<1>10. QED
  BY <1>6, <1>9 DEF ClientInv

\* The second loop: what is known of the functions it has passed stays true
\* when another one is wired, or the same one again.
LEMMA WireStepKeeps ==
  ASSUME cfg \in Config, ClientInv, cfg' = cfg,
         client = "wire", n < Len(chain.links), n' = n + 1,
         UNCHANGED <<client, chain, root, progs, raw_maps, attached, dylibs>>,
         link_states' = Insert(link_states, Here, chain.link[Here].state),
         \/ ~Branches /\ UNCHANGED <<instance_ids, prog_id, acts_map, progs_map>>
         \/ /\ Here \in progs
            /\ Len(Els) <= chain.slots[Here]
            /\ prog_id' = Insert(prog_id, Here, n)
            /\ instance_ids' = Insert(instance_ids, n, Here)
            /\ acts_map' = Insert(acts_map, Here, ActsOfNf(Here))
            /\ progs_map' = Insert(progs_map, Here, ProgsOfNf(Here))
  PROVE  ClientInv'
<1>1. /\ Sealed(chain) /\ n \in Nat /\ n + 1 \in 1..Len(chain.links)
      /\ Len(chain.links) \in Nat
      /\ Here \in cfg.functions
      /\ Seen(n + 1) = Seen(n) \union {Here}
  BY HereFacts
<1>2. PICK h \in cfg.functions : h = Here
  BY <1>1
<1>3. Sealed(chain)'
  BY <1>1, SealedKept
<1>4. Wiring
  BY DEF ClientInv, WireInv
<1>5. /\ DOMAIN link_states' = DOMAIN link_states \union {h}
      /\ link_states'[h] = chain.link[h].state
      /\ \A f \in DOMAIN link_states : f # h => link_states'[f] = link_states[f]
  BY <1>2 DEF Insert
<1>6. DOMAIN prog_id = DOMAIN acts_map /\ DOMAIN acts_map = DOMAIN progs_map
  BY DEF ClientInv, InstallTypeOK
<1>7. \A f : ActsOfNf(f)' = ActsOfNf(f) /\ ProgsOfNf(f)' = ProgsOfNf(f)
  BY DEF ActsOfNf, ProgsOfNf, JumpsOf
<1>8. n \in 0..(n' - 1) /\ \A i \in 0..(n - 1) : i \in 0..(n' - 1) /\ i # n
  BY <1>1
<1>9. /\ \A f : WiredNf(f, n) => WiredNf(f, n)'
      /\ h \in progs => chain.link[h].state.tail \/ WiredNf(h, n)'
      /\ DOMAIN prog_id' = DOMAIN acts_map' /\ DOMAIN acts_map' = DOMAIN progs_map'
  <2>1. CASE ~Branches /\ UNCHANGED <<instance_ids, prog_id, acts_map, progs_map>>
    <3>1. ASSUME NEW f, WiredNf(f, n) PROVE WiredNf(f, n)'
      BY <1>7, <1>8, <2>1, <3>1 DEF WiredNf
    <3>2. h \in progs => chain.link[h].state.tail
      BY <1>2, <2>1 DEF Branches
    <3>3. QED
      BY <1>6, <2>1, <3>1, <3>2
  <2>2. CASE /\ Here \in progs
             /\ Len(Els) <= chain.slots[Here]
             /\ prog_id' = Insert(prog_id, Here, n)
             /\ instance_ids' = Insert(instance_ids, n, Here)
             /\ acts_map' = Insert(acts_map, Here, ActsOfNf(Here))
             /\ progs_map' = Insert(progs_map, Here, ProgsOfNf(Here))
    <3>1. /\ DOMAIN prog_id' = DOMAIN prog_id \union {h} /\ prog_id'[h] = n
          /\ \A x \in DOMAIN prog_id : x # h => prog_id'[x] = prog_id[x]
      BY <1>2, <2>2 DEF Insert
    <3>2. /\ DOMAIN acts_map' = DOMAIN acts_map \union {h} /\ acts_map'[h] = ActsOfNf(h)
          /\ \A x \in DOMAIN acts_map : x # h => acts_map'[x] = acts_map[x]
      BY <1>2, <2>2 DEF Insert
    <3>3. /\ DOMAIN progs_map' = DOMAIN progs_map \union {h} /\ progs_map'[h] = ProgsOfNf(h)
          /\ \A x \in DOMAIN progs_map : x # h => progs_map'[x] = progs_map[x]
      BY <1>2, <2>2 DEF Insert
    <3>4. /\ DOMAIN instance_ids' = DOMAIN instance_ids \union {n} /\ instance_ids'[n] = h
          /\ \A x \in DOMAIN instance_ids : x # n => instance_ids'[x] = instance_ids[x]
      BY <1>2, <2>2 DEF Insert
    <3>5. WiredNf(h, n)'
      <4>1. Len(chain.link[h].state.acts) <= chain.slots[h]
        BY <1>2, <2>2 DEF Els
      <4>2. QED
        BY <1>7, <1>8, <3>1, <3>2, <3>3, <3>4, <4>1 DEF WiredNf
    <3>6. ASSUME NEW f, f # h, WiredNf(f, n) PROVE WiredNf(f, n)'
      BY <1>6, <1>7, <1>8, <3>1, <3>2, <3>3, <3>4, <3>6 DEF WiredNf
    <3>7. QED
      BY <1>6, <3>1, <3>2, <3>3, <3>5, <3>6
  <2>3. QED
    BY <2>1, <2>2
<1>10. Seen(n)' = Seen(n) \union {h}
  BY <1>1, <1>2 DEF Seen
<1>11. Wiring'
  <2>1. ASSUME NEW f \in Seen(n) \union {h}
        PROVE  /\ f \in DOMAIN link_states'
               /\ link_states'[f] = chain'.link[f].state
               /\ f \in progs' => chain'.link[f].state.tail \/ WiredNf(f, n)'
    <3>1. CASE f = h
      BY <1>5, <1>9, <3>1
    <3>2. CASE f # h
      <4>1. f \in Seen(n)
        BY <3>2
      <4>2. /\ f \in DOMAIN link_states
            /\ link_states[f] = chain.link[f].state
            /\ f \in progs => chain.link[f].state.tail \/ WiredNf(f, n)
        BY <1>4, <4>1 DEF Wiring
      <4>3. QED
        BY <1>5, <1>9, <3>2, <4>2
    <3>3. QED
      BY <3>1, <3>2
  <2>2. RootSeen(cfg.functions)' /\ progs' = XdpBins'
    BY <1>4, FileKept DEF Wiring, RootSeen
  <2>3. QED
    BY <1>10, <2>1, <2>2 DEF Wiring
<1>12. attached = NoNf
  BY DEF ClientInv, AttachedInv
<1>13. InstallTypeOK'
  <2>1. DOMAIN link_states' \subseteq cfg.functions
    BY <1>2, <1>5 DEF ClientInv, InstallTypeOK
  <2>2. n' \in 0..Len(chain'.links)
    BY <1>1
  <2>3. QED
    BY <1>9, <1>12, <2>1, <2>2 DEF ClientInv, InstallTypeOK
<1>14. LoadInv'
  BY DEF ClientInv, LoadInv
<1>15. ChainInv' /\ WireInv' /\ AttachedInv' /\ RefusalExplained'
  BY <1>3, <1>11, <1>12 DEF ChainInv, WireInv, AttachedInv, RefusalExplained, ServedInstalls
<1>16. QED
  BY <1>13, <1>14, <1>15 DEF ClientInv

\* The maps of a program that branches are filled.
LEMMA WireLinkKeeps ==
  ASSUME cfg \in Config, ClientInv, cfg' = cfg, WireLink
  PROVE  ClientInv'
<1>1. /\ client = "wire" /\ n < Len(chain.links) /\ n' = n + 1
      /\ UNCHANGED <<client, chain, root, progs, raw_maps, attached, dylibs>>
      /\ link_states' = Insert(link_states, Here, chain.link[Here].state)
      /\ Here \in progs
      /\ prog_id' = Insert(prog_id, Here, n)
      /\ instance_ids' = Insert(instance_ids, n, Here)
  BY DEF WireLink, Branches
<1>2. Len(Els) <= chain.slots[Here]
  <2>1. ~(Len(Els) > chain.slots[Here])
    BY DEF WireLink, BadWiring
  <2>2. Sealed(chain) /\ Here \in cfg.functions
    BY <1>1, HereFacts
  <2>3. Len(Els) \in Nat /\ chain.slots[Here] \in Nat
    BY <2>2, SealedLengths DEF Els
  <2>4. QED
    BY <2>1, <2>3
<1>3. /\ acts_map' = Insert(acts_map, Here, ActsOfNf(Here))
      /\ progs_map' = Insert(progs_map, Here, ProgsOfNf(Here))
  BY DEF WireLink, ActsOfNf, ProgsOfNf, JumpsOf, Jumps, Els, Slots
<1>4. QED
  BY <1>1, <1>2, <1>3, WireStepKeeps

\* There are no maps to fill.
LEMMA NoteLinkKeeps ==
  ASSUME cfg \in Config, ClientInv, cfg' = cfg, NoteLink
  PROVE  ClientInv'
BY WireStepKeeps DEF NoteLink

\* A function with exactly one link, which is one that is not LinkedTwice.
LEMMA OneLink ==
  ASSUME cfg \in Config, NEW f, FromLinks(f) # {}, ~LinkedTwice(f)
  PROVE  \E j : FromLinks(f) = {j}
<1>1. Len(cfg.links) \in Nat
  BY FileFacts
<1>2. IsFiniteSet(1..Len(cfg.links))
  BY <1>1, FS_Interval
<1>3. IsFiniteSet(FromLinks(f))
  BY <1>2, FS_Subset DEF FromLinks
<1>4. Cardinality(FromLinks(f)) \in Nat /\ Cardinality(FromLinks(f)) # 0
  BY <1>3, FS_CardinalityType, FS_EmptySet
<1>5. Cardinality(FromLinks(f)) = 1
  BY <1>4 DEF LinkedTwice
<1>6. QED
  BY <1>3, <1>5, FS_Singleton

\* BadNfLink cannot happen, and MapUpdateFail only after a second link.
LEMMA FailWireKeeps ==
  ASSUME cfg \in Config, ClientInv, cfg' = cfg, FailWire
  PROVE  ClientInv'
<1>1. client = "wire" /\ n < Len(chain.links) /\ Branches /\ BadWiring /\ GiveUp("error")
  BY DEF FailWire
<1>2. Sealed(chain) /\ Here \in cfg.functions
  BY <1>1, HereFacts
<1>3. progs = XdpBins
  BY <1>1 DEF ClientInv, WireInv, Wiring
<1>4. ASSUME NEW j \in Jumps PROVE Els[j].nf \in progs
  <2>1. j \in 1..Len(chain.link[Here].state.acts) /\ chain.link[Here].state.acts[j].kind = "tailcall"
    BY DEF Jumps, Els
  <2>2. /\ chain.link[Here].state.acts[j].nf \in cfg.functions
        /\ chain.nfs[chain.link[Here].state.acts[j].nf].ebpf
    BY <1>2, <2>1, SealedRunnable
  <2>3. QED
    BY <1>2, <1>3, <2>2, MessageFacts DEF Els
<1>5. Len(Els) > chain.slots[Here] /\ ~chain.link[Here].state.tail
  BY <1>1, <1>4 DEF BadWiring, Branches
<1>6. LinkedTwice(Here)
  <2>1. SUFFICES ASSUME ~LinkedTwice(Here) PROVE FALSE
    OBVIOUS
  <2>2. FromLinks(Here) # {}
    BY <1>2 DEF Sealed, Sized, BranchMismatch
  <2>3. PICK j : FromLinks(Here) = {j}
    BY <2>1, <2>2, OneLink
  <2>4. Derived(Here, chain.link[Here].state, Len(cfg.links))
    <3>1. CASE chain.link[Here].state = BodyState(<<>>)
      <4>1. Len(Els) = 0 /\ chain.slots[Here] \in Nat
        BY <1>2, <3>1, SealedLengths DEF Els, BodyState
      <4>2. QED
        BY <1>5, <4>1
    <3>2. QED
      BY <1>2, <3>1 DEF Sealed, Settled
  <2>5. /\ Len(Els) = Cardinality(cfg.variants[Here])
        /\ chain.slots[Here] \in Nat /\ Cardinality(cfg.variants[Here]) <= chain.slots[Here]
    BY <1>2, <1>5, <2>3, <2>4, SealedCovered DEF Els
  <2>6. Cardinality(cfg.variants[Here]) \in Nat
    BY <1>2, ChainsmithAssumption, FS_CardinalityType
  <2>7. QED
    BY <1>5, <2>5, <2>6
<1>7. Fault
  BY <1>2, <1>6 DEF Fault
<1>8. QED
  BY <1>1, <1>7, GiveUpKeeps

\* The root is attached after the last link.
LEMMA AttachKeeps ==
  ASSUME cfg \in Config, ClientInv, cfg' = cfg, Attach
  PROVE  ClientInv'
<1>1. /\ client = "wire" /\ n = Len(chain.links) /\ root \in progs
      /\ attached' = root /\ client' = "dylibs"
      /\ UNCHANGED <<chain, n, root, progs, tables, dylibs>>
  BY DEF Attach
<1>2. Sealed(chain)' /\ Wiring'
  BY <1>1, TablesKept DEF ClientInv, ChainInv, WireInv
<1>3. InstallTypeOK'
  BY <1>1 DEF ClientInv, InstallTypeOK, ClientPhases, tables
<1>4. LoadInv'
  BY <1>1 DEF ClientInv, LoadInv, tables
<1>5. ChainInv' /\ WireInv' /\ AttachedInv' /\ RefusalExplained'
  BY <1>1, <1>2 DEF ChainInv, WireInv, AttachedInv, RefusalExplained, ServedInstalls
<1>6. QED
  BY <1>3, <1>4, <1>5 DEF ClientInv

\* MissingRootNf cannot happen, unreachable!() only for a root without a program.
LEMMA FailAttachKeeps ==
  ASSUME cfg \in Config, ClientInv, cfg' = cfg, FailAttach
  PROVE  ClientInv'
<1>1. /\ client = "wire" /\ root \notin progs
      /\ GiveUp(IF root = NoNf THEN "error" ELSE "panic")
  BY DEF FailAttach
<1>2. Sealed(chain) /\ Wiring
  BY <1>1 DEF ClientInv, ChainInv, WireInv
<1>3. PICK g \in cfg.functions : chain.link[g].root
  BY <1>2 DEF Sealed, RootIs
<1>4. root \in cfg.functions /\ chain.link[root].root
  BY <1>2, <1>3 DEF Wiring, RootSeen
<1>5. root \in cfg.disable_xdp
  BY <1>1, <1>2, <1>4 DEF Wiring, XdpBins
<1>6. Fault
  BY <1>4, <1>5 DEF Fault
<1>7. QED
  BY <1>1, <1>6, GiveUpKeeps

\* Every function has a shared library.
LEMMA LoadDylibsKeeps ==
  ASSUME cfg \in Config, ClientInv, cfg' = cfg, LoadDylibs
  PROVE  ClientInv'
<1>1. /\ client = "dylibs" /\ client' = "run"
      /\ dylibs' = {f \in DOMAIN chain.nfs : chain.nfs[f].elf}
      /\ UNCHANGED <<chain, n, root, progs, tables, attached>>
  BY DEF LoadDylibs
<1>2. Sealed(chain)
  BY <1>1 DEF ClientInv, ChainInv
<1>3. dylibs' = cfg.functions
  BY <1>1, <1>2, MessageFacts
<1>4. Sealed(chain)' /\ Wiring'
  BY <1>1, TablesKept DEF ClientInv, ChainInv, WireInv
<1>5. InstallTypeOK'
  BY <1>1, <1>3 DEF ClientInv, InstallTypeOK, ClientPhases, tables
<1>6. LoadInv'
  BY <1>1 DEF ClientInv, LoadInv, tables
<1>7. AttachedInv'
  BY <1>1, <1>3 DEF ClientInv, AttachedInv
<1>8. ChainInv' /\ WireInv' /\ RefusalExplained'
  BY <1>1, <1>4 DEF ChainInv, WireInv, RefusalExplained, ServedInstalls
<1>9. QED
  BY <1>5, <1>6, <1>7, <1>8 DEF ClientInv

\* pulley does not move, and the file is the same.
LEMMA ClientStutterKeeps ==
  ASSUME ClientInv, cfg' = cfg, UNCHANGED clientVars
  PROVE  ClientInv'
<1>1. UNCHANGED <<client, chain, n, root, progs, tables, attached, dylibs>>
  BY DEF clientVars
<1>2. InstallTypeOK' /\ AttachedInv'
  BY <1>1 DEF ClientInv, InstallTypeOK, AttachedInv, tables
<1>3. ChainInv' /\ WireInv'
  BY <1>1, TablesKept DEF ClientInv, ChainInv, WireInv
<1>4. LoadInv'
  BY <1>1, FileKept DEF ClientInv, LoadInv, EmptyTables, RootSeen, Seen, tables
<1>5. RefusalExplained'
  BY <1>1, TablesKept DEF ClientInv, RefusalExplained, ServedInstalls, Fault
<1>6. QED
  BY <1>2, <1>3, <1>4, <1>5 DEF ClientInv

\* No step of chainsmith changes the file it compiles.
LEMMA ServerKeepsFile ==
  ASSUME [ServerNext]_serverVars
  PROVE  cfg' = cfg
BY DEF ServerNext, NextArch, FileError, Analyse, WriteXdp, WriteUser, CompileXdp, CompileUser,
       LinkRx, LinkNf, CountRx, Finish, Serve, Fail, serverVars

\* Every step of pulley.
LEMMA ClientNextKeeps ==
  ASSUME InstallInv, ClientNext, UNCHANGED serverVars
  PROVE  ClientInv'
<1>1. cfg \in Config /\ cfg' = cfg /\ ServerInv /\ ClientInv
  BY DEF InstallInv, ServerInv, ServerTypeOK, serverVars
<1>2. CASE GetChain
  BY <1>1, <1>2, GetChainKeeps
<1>3. CASE Load
  BY <1>1, <1>3, SkipLinkKeeps, LoadLinkKeeps, FailLoadKeeps, FailSeedKeeps,
     EndLoadKeeps DEF Load
<1>4. CASE Wire
  BY <1>1, <1>4, WireLinkKeeps, NoteLinkKeeps, FailWireKeeps DEF Wire
<1>5. CASE LoseServer \/ KernelRefuses
  BY <1>1, <1>5, LoseServerKeeps, KernelRefusesKeeps
<1>6. CASE Attach \/ FailAttach
  BY <1>1, <1>6, AttachKeeps, FailAttachKeeps
<1>7. CASE LoadDylibs \/ FailDylibs
  BY <1>1, <1>7, LoadDylibsKeeps, FailDylibsKeeps
<1>8. QED
  BY <1>2, <1>3, <1>4, <1>5, <1>6, <1>7 DEF ClientNext

\* Every step of the two programs.
LEMMA InstallNextKeeps ==
  ASSUME InstallInv, [InstallNext]_installVars
  PROVE  InstallInv'
<1>1. CASE ServerNext /\ UNCHANGED clientVars
  <2>1. cfg' = cfg
    BY <1>1, ServerKeepsFile
  <2>2. QED
    BY <1>1, <2>1, ServerNextKeeps, ClientStutterKeeps DEF InstallInv
<1>2. CASE ClientNext /\ UNCHANGED serverVars
  BY <1>2, ServerStutterKeeps, ClientNextKeeps DEF InstallInv
<1>3. CASE UNCHANGED installVars
  <2>1. UNCHANGED serverVars /\ UNCHANGED clientVars /\ cfg' = cfg
    BY <1>3 DEF installVars, serverVars
  <2>2. QED
    BY <2>1, ServerStutterKeeps, ClientStutterKeeps DEF InstallInv
<1>4. QED
  BY <1>1, <1>2, <1>3 DEF InstallNext

\* pulley starts with nothing.
LEMMA InstallInitInv == InstallInit => InstallInv
<1> SUFFICES ASSUME InstallInit PROVE InstallInv
  OBVIOUS
<1>1. ServerInv
  BY ServerInitInv DEF InstallInit
<1>2. ClientInit
  BY DEF InstallInit
<1>3. Len(chain.links) = 0 /\ DOMAIN raw_maps = {} /\ DOMAIN link_states = {}
  BY <1>2 DEF ClientInit, NoChain
<1>4. InstallTypeOK
  BY <1>2, <1>3 DEF ClientInit, InstallTypeOK, ClientPhases
<1>5. ChainInv /\ WireInv /\ AttachedInv /\ RefusalExplained
  BY <1>2 DEF ClientInit, ChainInv, WireInv, AttachedInv, RefusalExplained, ServedInstalls
<1>6. LoadInv
  BY <1>2 DEF ClientInit, LoadInv, EmptyTables
<1>7. QED
  BY <1>1, <1>4, <1>5, <1>6 DEF InstallInv, ClientInv
-----------------------------------------------------------------------------
\* to_kind loses nothing: every action of a sealed message is one of Kinds.
LEMMA KindFacts ==
  ASSUME cfg \in Config, NEW c, Sealed(c), NEW f \in cfg.functions,
         NEW l \in 1..Len(c.link[f].state.acts)
  PROVE  Kinds[ToKind(c.link[f].state.acts[l]) + 1] = c.link[f].state.acts[l].kind
<1>4. PICK d : c.link[f].state.acts[l] = Resolve(d) /\ Defined(d)
  BY SealedActs
<1>5. Resolve(d).kind \in {"tx", "drop", "abort", "upcall", "tailcall", "pass"}
  BY <1>4 DEF Resolve, Defined, Special, Act, Upcall, Tailcall
<1>6. \E i \in 0..5 : Kinds[i + 1] = Resolve(d).kind
  <2>1. /\ Kinds[0 + 1] = "tx" /\ Kinds[1 + 1] = "drop" /\ Kinds[2 + 1] = "abort"
        /\ Kinds[3 + 1] = "upcall" /\ Kinds[4 + 1] = "tailcall" /\ Kinds[5 + 1] = "pass"
    BY DEF Kinds
  <2>2. {0, 1, 2, 3, 4, 5} \subseteq 0..5
    OBVIOUS
  <2>3. QED
    BY <1>5, <2>1, <2>2
<1>7. Kinds[ToKind(Resolve(d)) + 1] = Resolve(d).kind
  BY <1>6 DEF ToKind
<1>8. QED
  BY <1>4, <1>7

\* What the maps of a wired function say.
LEMMA WiredFacts ==
  ASSUME cfg \in Config, Sealed(chain), NEW f \in cfg.functions, NEW i, WiredNf(f, i),
         NEW j \in 1..Len(chain.link[f].state.acts)
  PROVE  /\ Kinds[acts_map[f][j - 1] + 1] = chain.link[f].state.acts[j].kind
         /\ chain.link[f].state.acts[j].kind = "tailcall" =>
              progs_map[f][j - 1] = chain.link[f].state.acts[j].nf
<1> DEFINE els == chain.link[f].state.acts
<1>1. Len(els) \in Nat /\ chain.slots[f] \in Nat /\ Len(els) <= chain.slots[f]
  BY SealedLengths DEF WiredNf
<1>2. j - 1 \in 0..(chain.slots[f] - 1) /\ j - 1 < Len(els) /\ (j - 1) + 1 = j
  BY <1>1
<1>3. acts_map[f][j - 1] = ToKind(els[j])
  BY <1>2 DEF WiredNf, ActsOfNf
<1>4. els[j].kind = "tailcall" => progs_map[f][j - 1] = els[j].nf
  <2>1. els[j].kind = "tailcall" => j - 1 \in {m - 1 : m \in JumpsOf(f)}
    BY DEF JumpsOf
  <2>2. QED
    BY <1>2, <2>1 DEF WiredNf, ProgsOfNf
<1>5. QED
  BY <1>3, <1>4, KindFacts

\* From the moment the root is attached the maps are filled.
LEMMA WiredThen == InstallInv => WiredWhenAttached
<1> SUFFICES ASSUME InstallInv, attached # NoNf, NEW f \in progs,
                    ~chain.link[f].state.tail
             PROVE  /\ f \in DOMAIN acts_map
                    /\ instance_ids[prog_id[f]] = f
                    /\ \A j \in 1..Len(chain.link[f].state.acts) :
                         /\ Kinds[acts_map[f][j - 1] + 1] = chain.link[f].state.acts[j].kind
                         /\ chain.link[f].state.acts[j].kind = "tailcall" =>
                              progs_map[f][j - 1] = chain.link[f].state.acts[j].nf
  BY DEF WiredWhenAttached
<1>1. cfg \in Config /\ client \in {"dylibs", "run"} /\ n = Len(chain.links)
  BY DEF InstallInv, ServerInv, ServerTypeOK, ClientInv, AttachedInv
<1>2. Sealed(chain) /\ Wiring /\ f \in cfg.functions
  BY <1>1 DEF InstallInv, ClientInv, ChainInv, WireInv, InstallTypeOK
<1>3. f \in Seen(n)
  BY <1>1, <1>2, MessageFacts DEF Seen
<1>4. WiredNf(f, n)
  BY <1>2, <1>3 DEF Wiring
<1>5. QED
  BY <1>1, <1>2, <1>4, WiredFacts DEF WiredNf
-----------------------------------------------------------------------------
\* chainsmith and pulley keep their inductive invariant.
THEOREM InstallInvariant == InstallSpec => []InstallInv
BY InstallInitInv, InstallNextKeeps, PTL DEF InstallSpec

\* What install_chain builds keeps its types.
THEOREM InstallTypes == InstallSpec => []InstallTypeOK
<1>1. InstallInv => InstallTypeOK
  BY DEF InstallInv, ClientInv
<1>2. QED
  BY <1>1, InstallInvariant, PTL

\* XDP programs start to run when the root is attached; from that moment every
\* loaded program that branches finds its complete maps, for every chain
\* chainsmith can serve and every order of its links.
THEOREM AlwaysWired == InstallSpec => []WiredWhenAttached
BY WiredThen, InstallInvariant, PTL

\* install_chain refuses a chain that chainsmith served only for one of four
\* faults of the file; BadNfLink, MissingNf and MissingRootNf never happen.
THEOREM AlwaysExplained == InstallSpec => []RefusalExplained
<1>1. InstallInv => RefusalExplained
  BY DEF InstallInv, ClientInv
<1>2. QED
  BY <1>1, InstallInvariant, PTL
=============================================================================
