----------------------------- MODULE WalkProofs -----------------------------
(***************************************************************************)
(* Theorems about Walk, for every chain.toml and every number of tailcalls *)
(* the kernel allows: what can make a thread panic, what can give a packet *)
(* another end than its functions asked for, and that the installed chain  *)
(* of a sound file does what ChainWalk promises.                           *)
(***************************************************************************)
EXTENDS Walk, InstallProofs

\* The clients a packet can meet: the root has been attached.
Live == client \in {"dylibs", "run", "io_error"}

\* A packet on its way to userland: the metadata name the upcall.
QueuedInv ==
  LET els == chain.link[at].state.acts
  IN  /\ at \in progs
      /\ ~chain.link[at].state.tail
      /\ out \in cfg.variants[at]
      /\ out + 1 \in 1..Len(els)
      /\ els[out + 1].kind = "upcall"
      /\ meta = [prog_id |-> prog_id[at], act |-> out]

PacketInv ==
  /\ PacketTypeOK
  /\ where # "idle" => Live /\ at \in cfg.functions
  /\ where = "kernel" => at \in progs
  /\ where = "queued" => QueuedInv
  /\ where = "user" => client = "run" /\ at \in Userland
  /\ CrashExplained
  /\ FateExplained

WalkInv == InstallInv /\ PacketInv

\* What FateAsConfigured asks of a packet that f, returning o, gave the end e.
FateOK(f, o, e) ==
  \E j \in 1..Len(cfg.links) :
    /\ cfg.links[j].from = f
    /\ o \in 0..(Len(cfg.links[j].to) - 1)
    /\ LET d == cfg.links[j].to[o + 1].name
       IN  e = IF d \in cfg.functions \union {"abort"} THEN "drop" ELSE d
-----------------------------------------------------------------------------
(***************************************************************************)
(* What an installed chain does.                                           *)
(***************************************************************************)

\* The chain a packet meets was sealed, and all of it is loaded and wired.
LEMMA LiveFacts ==
  ASSUME InstallInv, Live
  PROVE  /\ cfg \in Config
         /\ Sealed(chain)
         /\ progs = XdpBins
         /\ root \in progs /\ chain.link[root].root
         /\ \A f \in cfg.functions :
              /\ f \in DOMAIN link_states
              /\ link_states[f] = chain.link[f].state
              /\ f \in progs => chain.link[f].state.tail \/ WiredNf(f, n)
<1>1. cfg \in Config /\ n = Len(chain.links) /\ root \in progs /\ progs \subseteq cfg.functions
  BY DEF InstallInv, ServerInv, ServerTypeOK, ClientInv, AttachedInv, Live, InstallTypeOK
<1>2. Sealed(chain) /\ Wiring
  BY DEF InstallInv, ClientInv, ChainInv, WireInv, Live
<1>3. Seen(n) = cfg.functions
  BY <1>1, <1>2, MessageFacts DEF Seen
<1>4. chain.link[root].root
  BY <1>1, <1>2, FileFacts DEF Wiring, RootSeen
<1>5. QED
  BY <1>1, <1>2, <1>3, <1>4 DEF Wiring

\* A function without a fault has one link, and an action made from its targets
\* for every value it returns.
LEMMA AsWritten ==
  ASSUME cfg \in Config, Sealed(chain), NEW f \in cfg.functions, ~Faulty(f),
         NEW o \in cfg.variants[f]
  PROVE  \E j \in FromLinks(f) :
           LET to    == cfg.links[j].to
               state == chain.link[f].state
           IN  /\ o + 1 \in 1..Len(to)
               /\ to[o + 1].up \in BOOLEAN
               /\ Defined(to[o + 1])
               /\ ActOf(state, o) = Resolve(to[o + 1])
               /\ ~ActPanics(state, o)
               /\ ~state.tail => o + 1 \in 1..Len(state.acts)
<1> DEFINE state == chain.link[f].state
           Count == Cardinality(cfg.variants[f])
<1>1. /\ ~LinkedTwice(f) /\ ~Misnamed(f)
      /\ cfg.variants[f] = 0..(ReturnLen(f) - 1)
  BY DEF Faulty, Explicit
<1>2. Derived(f, state, Len(cfg.links))
  BY <1>1 DEF Sealed, Settled, Misnamed
<1>3. FromLinks(f) # {}
  BY <1>2 DEF Derived
<1>4. PICK j : FromLinks(f) = {j}
  BY <1>1, <1>3, OneLink
<1> DEFINE to == cfg.links[j].to
<1>5. AllDefined(to) /\ state = StateOf(to) /\ Len(to) = Count
  BY <1>2, <1>4, SealedCovered
<1>6. Len(to) \in Nat /\ \A i \in 1..Len(to) : to[i].up \in BOOLEAN
  BY <1>4, FileFacts DEF FromLinks
<1>7. o \in 0..(Len(to) - 1)
  BY <1>1, <1>5 DEF ReturnLen
<1>8. o + 1 \in 1..Len(to) /\ o \in Nat /\ o < Len(to)
  BY <1>6, <1>7
<1> HIDE DEF state, to, Count
<1>9. CASE IsTail(to)
  <2>1. state.tail = TRUE
    BY <1>5, <1>9 DEF StateOf, TailState
  <2>2. to[o + 1] = [up |-> FALSE, name |-> "tx"]
    <3>1. Len(to) = 1 /\ to[1] = [up |-> FALSE, name |-> "tx"]
      BY <1>9 DEF IsTail
    <3>2. o + 1 = 1
      BY <1>8, <3>1
    <3>3. QED
      BY <3>1, <3>2
  <2>3. "tx" \notin cfg.functions
    BY <1>1, <1>4, <1>9 DEF Misnamed, to
  <2>4. Defined(to[o + 1]) /\ Resolve(to[o + 1]) = Act("tx")
    BY <2>2, <2>3 DEF Defined, Special, Resolve
  <2>5. ActOf(state, o) = Resolve(to[o + 1]) /\ ~ActPanics(state, o)
    BY <2>1, <2>4 DEF ActOf, ActPanics
  <2>6. QED
    BY <1>4, <1>6, <1>8, <2>1, <2>4, <2>5 DEF to, state
<1>10. CASE ~IsTail(to)
  <2> DEFINE acts == [i \in 1..Len(to) |-> Resolve(to[i])]
  <2>1. state = [tail |-> FALSE, acts |-> acts]
    BY <1>5, <1>10 DEF StateOf, BodyState
  <2>2. Len(acts) = Len(to) /\ acts[o + 1] = Resolve(to[o + 1])
    BY <1>6, <1>8
  <2>3. state.tail = FALSE /\ state.acts = acts
    <3> HIDE DEF acts
    <3> QED
      BY <2>1
  <2> HIDE DEF acts
  <2>4. Defined(to[o + 1])
    BY <1>5, <1>8, <1>10 DEF AllDefined
  <2>5. ~ActPanics(state, o)
    BY <1>6, <1>8, <2>2, <2>3 DEF ActPanics
  <2>6. ActOf(state, o) = Resolve(to[o + 1])
    BY <2>2, <2>3 DEF ActOf
  <2>7. QED
    BY <1>4, <1>6, <1>8, <2>2, <2>3, <2>4, <2>5, <2>6 DEF to, state
<1>11. QED
  BY <1>9, <1>10

\* What such an action means in the abstract walk.
LEMMA ActionFacts ==
  ASSUME cfg \in Config, Sealed(chain), NEW f \in cfg.functions, ~Faulty(f),
         NEW o \in cfg.variants[f]
  PROVE  LET action == ActOf(chain.link[f].state, o)
         IN  /\ o \in Nat
             /\ ~ActPanics(chain.link[f].state, o)
             /\ ~chain.link[f].state.tail => o + 1 \in 1..Len(chain.link[f].state.acts)
             /\ action.kind \in {"upcall", "tailcall"} =>
                  /\ action.nf \in cfg.functions
                  /\ ByTheBook!Leads(f, o, action.nf)
                  /\ FateOK(f, o, "drop")
             /\ action.kind \notin {"upcall", "tailcall"} =>
                  /\ action.nf = NoNf
                  /\ action.kind \in Special
                  /\ ByTheBook!Leads(f, o, action.kind)
                  /\ FateOK(f, o, IF action.kind = "abort" THEN "drop" ELSE action.kind)
             /\ f \in Userland /\ ~Swallows(f) => action.kind # "pass"
<1> DEFINE state == chain.link[f].state
           action == ActOf(state, o)
<1>1. PICK j \in FromLinks(f) :
        /\ o + 1 \in 1..Len(cfg.links[j].to)
        /\ cfg.links[j].to[o + 1].up \in BOOLEAN
        /\ Defined(cfg.links[j].to[o + 1])
        /\ action = Resolve(cfg.links[j].to[o + 1])
        /\ ~ActPanics(state, o)
        /\ ~state.tail => o + 1 \in 1..Len(state.acts)
  BY AsWritten
<1> DEFINE d == cfg.links[j].to[o + 1]
<1>2. j \in 1..Len(cfg.links) /\ cfg.links[j].from = f /\ Len(cfg.links[j].to) \in Nat
  BY FileFacts DEF FromLinks
<1>3. o \in Nat
  BY ChainsmithAssumption
<1>4. o \in 0..(Len(cfg.links[j].to) - 1)
  BY <1>1, <1>2, <1>3
<1>5. ByTheBook!Leads(f, o, d.name)
  BY <1>1, <1>2 DEF ByTheBook!Leads
<1>6. FateOK(f, o, IF d.name \in cfg.functions \union {"abort"} THEN "drop" ELSE d.name)
  BY <1>2, <1>4 DEF FateOK
<1> HIDE DEF state, action
<1>7. /\ action.kind \in {"upcall", "tailcall"} <=> d.name \in cfg.functions
      /\ d.name \in cfg.functions => action.nf = d.name
      /\ d.name \notin cfg.functions => action.kind = d.name /\ action.nf = NoNf
  BY <1>1, ResolveFacts
<1>8. d.name \notin cfg.functions => d.name \in Special
  BY <1>1 DEF Defined
<1>9. f \in Userland /\ ~Swallows(f) => action.kind # "pass"
  <2> SUFFICES ASSUME f \in Userland, action.kind = "pass" PROVE Swallows(f)
    OBVIOUS
  <2>1. d.name = "pass"
    BY <1>1, <1>7 DEF Resolve, Upcall, Tailcall
  <2>2. QED
    BY <1>1, <2>1 DEF Swallows
<1> HIDE DEF d
<1>10. action.kind \in {"upcall", "tailcall"} =>
         action.nf \in cfg.functions /\ ByTheBook!Leads(f, o, action.nf) /\ FateOK(f, o, "drop")
  BY <1>5, <1>6, <1>7
<1>11. action.kind \notin {"upcall", "tailcall"} =>
         /\ action.nf = NoNf
         /\ action.kind \in Special
         /\ ByTheBook!Leads(f, o, action.kind)
         /\ FateOK(f, o, IF action.kind = "abort" THEN "drop" ELSE action.kind)
  BY <1>5, <1>6, <1>7, <1>8
<1>12. QED
  BY <1>1, <1>3, <1>9, <1>10, <1>11 DEF state, action

\* What the maps of a branching program tell it: the action of the value it
\* returned; beyond the actions there is padding, read as tx, and then nothing.
LEMMA KernelFacts ==
  ASSUME InstallInv, Live, at \in progs, ~chain.link[at].state.tail, NEW o \in Nat
  PROVE  LET els == chain.link[at].state.acts
         IN  /\ at \in cfg.functions
             /\ o + 1 \in 1..Len(els) => KernelAct(o) = els[o + 1].kind
             /\ o + 1 \notin 1..Len(els) => KernelAct(o) \in {"tx", "pass"}
             /\ o \in DOMAIN progs_map[at] <=>
                  o + 1 \in 1..Len(els) /\ els[o + 1].kind = "tailcall"
             /\ o \in DOMAIN progs_map[at] => progs_map[at][o] = els[o + 1].nf
<1> DEFINE els == chain.link[at].state.acts
<1>1. /\ cfg \in Config /\ Sealed(chain)
      /\ at \in cfg.functions
      /\ WiredNf(at, n)
  BY LiveFacts DEF InstallInv, ClientInv, InstallTypeOK
<1>2. /\ Len(els) \in Nat /\ chain.slots[at] \in Nat /\ Len(els) <= chain.slots[at]
      /\ acts_map[at] = ActsOfNf(at) /\ progs_map[at] = ProgsOfNf(at)
  BY <1>1, SealedLengths DEF WiredNf
<1>3. ASSUME o + 1 \in 1..Len(els) PROVE KernelAct(o) = els[o + 1].kind
  <2>1. (o + 1) - 1 = o /\ o \in 0..(chain.slots[at] - 1)
    BY <1>2, <1>3
  <2>2. Kinds[acts_map[at][o] + 1] = els[o + 1].kind
    BY <1>1, <1>3, <2>1, WiredFacts
  <2>3. o \in DOMAIN acts_map[at]
    BY <1>2, <2>1 DEF ActsOfNf
  <2>4. QED
    BY <2>2, <2>3 DEF KernelAct
<1>4. ASSUME o + 1 \notin 1..Len(els) PROVE KernelAct(o) \in {"tx", "pass"}
  <2>1. ~(o < Len(els))
    BY <1>2, <1>4
  <2>2. o \in DOMAIN acts_map[at] => acts_map[at][o] = 0
    BY <1>2, <2>1 DEF ActsOfNf
  <2>3. Kinds[0 + 1] = "tx"
    BY DEF Kinds
  <2>4. QED
    BY <2>2, <2>3 DEF KernelAct
<1>5. o \in DOMAIN progs_map[at] <=> o + 1 \in 1..Len(els) /\ els[o + 1].kind = "tailcall"
  <2>1. DOMAIN progs_map[at] = {j - 1 : j \in JumpsOf(at)}
    BY <1>2 DEF ProgsOfNf
  <2>2. JumpsOf(at) = {j \in 1..Len(els) : els[j].kind = "tailcall"}
    BY DEF JumpsOf
  <2>3. \A j \in 1..Len(els) : o = j - 1 => j = o + 1
    BY <1>2
  <2>4. (o + 1) - 1 = o
    OBVIOUS
  <2> HIDE DEF els
  <2>5. ASSUME o \in DOMAIN progs_map[at]
        PROVE  o + 1 \in 1..Len(els) /\ els[o + 1].kind = "tailcall"
    <3>1. PICK j \in JumpsOf(at) : o = j - 1
      BY <2>1, <2>5
    <3>2. j = o + 1
      BY <2>2, <2>3, <3>1
    <3>3. QED
      BY <2>2, <3>1, <3>2
  <2>6. ASSUME o + 1 \in 1..Len(els), els[o + 1].kind = "tailcall"
        PROVE  o \in DOMAIN progs_map[at]
    <3>1. o + 1 \in JumpsOf(at)
      BY <2>2, <2>6
    <3>2. (o + 1) - 1 \in {j - 1 : j \in JumpsOf(at)}
      BY <3>1
    <3>3. QED
      BY <2>1, <2>4, <3>2
  <2>7. QED
    BY <2>5, <2>6
<1>6. o \in DOMAIN progs_map[at] => progs_map[at][o] = els[o + 1].nf
  BY <1>2 DEF ProgsOfNf
<1>7. QED
  BY <1>1, <1>3, <1>4, <1>5, <1>6

\* The kind of an action of the chain, and the function it leads to.
LEMMA TargetFacts ==
  ASSUME cfg \in Config, Sealed(chain), NEW f \in cfg.functions,
         NEW l \in 1..Len(chain.link[f].state.acts)
  PROVE  LET action == chain.link[f].state.acts[l]
         IN  /\ action.kind \in Special \union {"upcall", "tailcall"}
             /\ action.kind \in {"upcall", "tailcall"} => action.nf \in cfg.functions
             /\ action.kind = "tailcall" => action.nf \in XdpBins
             /\ action.kind = "upcall" => action.nf \in Userland
             /\ action.kind = "tailcall" /\ f \in Userland => action.nf \in Userland
<1> DEFINE action == chain.link[f].state.acts[l]
<1>1. PICK j \in FromLinks(f) :
        /\ l \in 1..Len(cfg.links[j].to)
        /\ cfg.links[j].to[l].up \in BOOLEAN
        /\ Defined(cfg.links[j].to[l])
        /\ action = Resolve(cfg.links[j].to[l])
  BY SealedActs
<1> DEFINE d == cfg.links[j].to[l]
<1> HIDE DEF action
<1>2. /\ action.kind \in {"upcall", "tailcall"} <=> d.name \in cfg.functions
      /\ d.name \in cfg.functions => action.nf = d.name
      /\ d.name \notin cfg.functions => action.kind = d.name
      /\ action.kind = "tailcall" => d.name \notin cfg.disable_xdp
  BY <1>1, ResolveFacts
<1>3. d.name \notin cfg.functions => d.name \in Special
  BY <1>1 DEF Defined
<1>4. ASSUME d.name \in cfg.functions, action.kind = "upcall" \/ f \in Userland
      PROVE  d.name \in Userland
  <2> SUFFICES ASSUME NEW U \in SUBSET cfg.functions, Closed(U) PROVE d.name \in U
    BY <1>4 DEF Userland
  <2>1. j \in 1..Len(cfg.links) /\ cfg.links[j].from = f
    BY DEF FromLinks
  <2>2. cfg.links[j].from \in U \/ Resolve(d).kind = "upcall"
    BY <1>1, <1>4, <2>1 DEF Userland
  <2>3. QED
    BY <1>1, <1>4, <2>1, <2>2 DEF Closed
<1> HIDE DEF d
<1>5. QED
  BY <1>2, <1>3, <1>4 DEF XdpBins, action

\* The static of a map is named after it: names in snake case stay apart.
LEMMA SymbolsCounted ==
  ASSUME cfg \in Config, NEW f \in cfg.functions, \A m \in cfg.maps[f] : m.plain
  PROVE  Cardinality({ScreamingSnake(m) : m \in cfg.maps[f]}) = Cardinality(cfg.maps[f])
<1> DEFINE M == cfg.maps[f]
           Statics == {ScreamingSnake(m) : m \in M}
           F == [m \in M |-> ScreamingSnake(m)]
<1>1. IsFiniteSet(M)
  BY ChainsmithAssumption
<1>2. ASSUME NEW m \in M PROVE m = [words |-> m.words, plain |-> TRUE]
  <2>1. m.plain \in BOOLEAN /\ m = [words |-> m.words, plain |-> m.plain]
    BY ChainsmithAssumption
  <2>2. m.plain = TRUE
    BY <2>1
  <2>3. QED
    BY <2>1, <2>2
<1>3. ASSUME NEW a \in M, NEW b \in M, ScreamingSnake(a) = ScreamingSnake(b)
      PROVE  a = b
  <2>1. ScreamingSnake(a).words = a.words /\ ScreamingSnake(b).words = b.words
    BY DEF ScreamingSnake
  <2>2. QED
    BY <1>2, <1>3, <2>1
<1>4. F \in [M -> Statics] /\ DOMAIN F = M /\ \A m \in M : F[m] = ScreamingSnake(m)
  OBVIOUS
<1>5. \A t \in Statics : \E m \in M : F[m] = t
  OBVIOUS
<1> HIDE DEF F, M, Statics
<1>6. IsInjective(F)
  BY <1>3, <1>4 DEF IsInjective
<1>7. ExistsBijection(M, Statics)
  BY <1>4, <1>5, <1>6 DEF ExistsBijection, Bijection, Injection, Surjection
<1>8. QED
  BY <1>1, <1>7, FS_Bijection DEF M, Statics

\* In userland a function without a fault gets the maps it was compiled for,
\* and returns one of its values.
LEMMA UserFacts ==
  ASSUME InstallInv, client = "run", at \in cfg.functions
  PROVE  /\ UserReturns \subseteq Nat
         /\ dylibs = cfg.functions
         /\ link_states[at] = chain.link[at].state
         /\ ~Faulty(at) => UserReturns = cfg.variants[at]
<1>1. Live
  BY DEF Live
<1>2. /\ cfg \in Config /\ Sealed(chain) /\ progs = XdpBins
      /\ link_states[at] = chain.link[at].state
  BY <1>1, LiveFacts
<1>3. dylibs = cfg.functions /\ DOMAIN raw_maps = progs
  BY DEF InstallInv, ClientInv, AttachedInv, InstallTypeOK
<1>4. cfg.variants[at] \subseteq Nat
  BY <1>2, ChainsmithAssumption
<1>5. UserReturns \subseteq Nat
  BY <1>4 DEF UserReturns, Max32
<1>6. chain.nfs[at].symbols = {ScreamingSnake(m) : m \in cfg.maps[at]}
  BY <1>2, MessageFacts
<1>7. ASSUME ~Faulty(at) PROVE MapsGiven = Cardinality(chain.nfs[at].symbols)
  <2>1. CASE at \in progs
    <3>1. raw_maps[at] = Cardinality(cfg.maps[at]) /\ \A m \in cfg.maps[at] : m.plain
      BY <2>1 DEF InstallInv, ClientInv, LoadInv
    <3>2. MapsGiven = raw_maps[at]
      BY <1>3, <2>1 DEF MapsGiven
    <3>3. QED
      BY <1>2, <1>6, <3>1, <3>2, SymbolsCounted
  <2>2. CASE at \notin progs
    <3>1. cfg.maps[at] = {}
      BY <1>2, <1>7, <2>2 DEF Faulty, Mapless, XdpBins
    <3>2. {ScreamingSnake(m) : m \in cfg.maps[at]} = {}
      BY <3>1
    <3>3. MapsGiven = 0
      BY <1>3, <2>2 DEF MapsGiven
    <3>4. QED
      BY <1>6, <3>2, <3>3, FS_EmptySet
  <2>3. QED
    BY <2>1, <2>2
<1>8. QED
  BY <1>2, <1>3, <1>5, <1>7 DEF UserReturns
-----------------------------------------------------------------------------
(***************************************************************************)
(* Every step keeps the invariant of the packet.                           *)
(***************************************************************************)

\* What the file says of a function does not change.
LEMMA FaultsKept ==
  ASSUME cfg' = cfg
  PROVE  /\ \A f : Faulty(f)' <=> Faulty(f)
         /\ \A f : Swallows(f)' <=> Swallows(f)
         /\ Userland' = Userland
         /\ Sound' <=> Sound
<1>1. ASSUME NEW f PROVE Faulty(f)' <=> Faulty(f)
  BY FileKept DEF Faulty, LinkedTwice, Mapless, Explicit, Misnamed
<1>2. ASSUME NEW U PROVE Closed(U)' <=> Closed(U)
  BY FileKept DEF Closed
<1>3. Userland' = Userland
  BY <1>2 DEF Userland
<1>4. ASSUME NEW f PROVE Swallows(f)' <=> Swallows(f)
  BY <1>3, FileKept DEF Swallows
<1>5. Sound' <=> Sound
  BY <1>1, <1>4 DEF Sound
<1>6. QED
  BY <1>1, <1>3, <1>4, <1>5

\* The walk ends, as configured unless there is a fault.
LEMMA EndKeeps ==
  ASSUME PacketInv, UNCHANGED installVars, where # "idle",
         where' = "done", UNCHANGED <<at, hops>>,
         NEW o, out' = o,
         NEW e \in {"tx", "drop", "pass"}, fate' = e,
         ~Faulty(at) /\ ~Swallows(at) => FateOK(at, o, e)
  PROVE  PacketInv'
<1>1. cfg' = cfg /\ client' = client
  BY DEF installVars, serverVars, clientVars
<1>2. PacketTypeOK' /\ CrashExplained'
  BY <1>1 DEF PacketInv, PacketTypeOK, CrashExplained, NoCrash
<1>3. Live' /\ at' \in cfg'.functions
  BY <1>1 DEF PacketInv, Live
<1>4. PICK f : f = at
  OBVIOUS
<1>5. (Faulty(at)' <=> Faulty(f)) /\ (Swallows(at)' <=> Swallows(f))
  BY <1>1, <1>4, FaultsKept
<1>6. FateOK(at, o, e) => FateAsConfigured'
  BY <1>1 DEF FateOK, FateAsConfigured
<1>7. FateExplained'
  BY <1>4, <1>5, <1>6 DEF FateExplained
<1>8. QED
  BY <1>2, <1>3, <1>7 DEF PacketInv

\* A thread panics, because of a fault.
LEMMA CrashKeeps ==
  ASSUME PacketInv, UNCHANGED installVars, where # "idle",
         where' = "done", UNCHANGED <<at, hops>>, fate' = "crash", Faulty(at)
  PROVE  PacketInv'
<1>1. cfg' = cfg /\ client' = client
  BY DEF installVars, serverVars, clientVars
<1>2. PacketTypeOK' /\ FateExplained'
  BY <1>1 DEF PacketInv, PacketTypeOK, FateExplained, FateAsConfigured
<1>3. Live' /\ at' \in cfg'.functions
  BY <1>1 DEF PacketInv, Live
<1>4. PICK f : f = at
  OBVIOUS
<1>5. Faulty(at)' <=> Faulty(f)
  BY <1>1, <1>4, FaultsKept
<1>6. QED
  BY <1>2, <1>3, <1>4, <1>5 DEF PacketInv, CrashExplained

\* The walk goes on.
LEMMA OnKeeps ==
  ASSUME PacketInv, UNCHANGED installVars, Live,
         where' \in {"kernel", "queued", "user"}, UNCHANGED fate, where # "done",
         at' \in cfg.functions, hops' \in 0..TailLimit,
         where' = "kernel" => at' \in progs,
         where' = "queued" => QueuedInv',
         where' = "user" => client = "run" /\ at' \in Userland
  PROVE  PacketInv'
<1>1. cfg' = cfg /\ client' = client /\ progs' = progs
  BY DEF installVars, serverVars, clientVars
<1>2. fate' = "none"
  BY DEF PacketInv, PacketTypeOK
<1>3. PacketTypeOK'
  BY <1>1, <1>2 DEF PacketTypeOK
<1>4. CrashExplained' /\ FateExplained'
  BY <1>2 DEF CrashExplained, NoCrash, FateExplained, FateAsConfigured
<1>5. Live' /\ Userland' = Userland
  BY <1>1, FaultsKept DEF Live
<1>6. QED
  BY <1>1, <1>3, <1>4, <1>5 DEF PacketInv

\* Only the root is attached, and it was loaded.
LEMMA ArriveKeeps ==
  ASSUME InstallInv, PacketInv, UNCHANGED installVars, Arrive
  PROVE  PacketInv'
<1>1. attached = root /\ client \in {"dylibs", "run"} /\ progs \subseteq cfg.functions
  BY DEF Arrive, InstallInv, ClientInv, AttachedInv, InstallTypeOK
<1>2. Live
  BY <1>1 DEF Live
<1>3. root \in progs
  BY <1>2, LiveFacts
<1>4. hops' \in 0..TailLimit /\ where' = "kernel" /\ at' = root /\ UNCHANGED fate /\ where # "done"
  BY <1>1 DEF Arrive, PacketInv, PacketTypeOK
<1>5. QED
  BY <1>1, <1>2, <1>3, <1>4, OnKeeps

\* What is known of a packet in the kernel.
LEMMA InKernel ==
  ASSUME InstallInv, PacketInv, where = "kernel"
  PROVE  /\ Live /\ cfg \in Config /\ Sealed(chain)
         /\ at \in progs /\ at \in cfg.functions /\ progs = XdpBins
         /\ cfg.variants[at] \subseteq Nat
         /\ where # "idle" /\ where # "done"
         /\ hops \in 0..TailLimit
         /\ fate = "none"
<1>1. Live /\ at \in progs /\ at \in cfg.functions /\ hops \in 0..TailLimit /\ fate = "none"
  BY DEF PacketInv, PacketTypeOK
<1>2. cfg \in Config /\ Sealed(chain) /\ progs = XdpBins
  BY <1>1, LiveFacts
<1>3. cfg.variants[at] \subseteq Nat
  BY <1>1, <1>2, ChainsmithAssumption
<1>4. QED
  BY <1>1, <1>2, <1>3

\* A Tail transmits.
LEMMA RunEndKeeps ==
  ASSUME InstallInv, PacketInv, UNCHANGED installVars, RunEnd
  PROVE  PacketInv'
<1>1. /\ where = "kernel" /\ chain.link[at].state.tail /\ where' = "done" /\ fate' = "tx"
      /\ UNCHANGED <<at, hops>> /\ out' \in cfg.variants[at]
  BY DEF RunEnd, End
<1>2. PICK o \in cfg.variants[at] : out' = o
  BY <1>1
<1>3. ASSUME ~Faulty(at) PROVE FateOK(at, o, "tx")
  <2>1. LET action == ActOf(chain.link[at].state, o)
        IN  action.kind \notin {"upcall", "tailcall"} =>
              FateOK(at, o, IF action.kind = "abort" THEN "drop" ELSE action.kind)
    BY <1>1, <1>2, <1>3, InKernel, ActionFacts
  <2>2. ActOf(chain.link[at].state, o).kind = "tx"
    BY <1>1 DEF ActOf, Act
  <2>3. QED
    BY <2>1, <2>2
<1>4. QED
  BY <1>1, <1>2, <1>3, InKernel, EndKeeps

\* The step of a program that branches, on a value its function returned.
LEMMA BranchFacts ==
  ASSUME InstallInv, PacketInv, where = "kernel", ~chain.link[at].state.tail,
         NEW o \in cfg.variants[at]
  PROVE  LET els == chain.link[at].state.acts
         IN  /\ o \in Nat
             /\ KernelAct(o) \in Special \union {"upcall", "tailcall"}
             /\ KernelAct(o) \in {"upcall", "tailcall"} =>
                  o + 1 \in 1..Len(els) /\ els[o + 1].kind = KernelAct(o)
             /\ KernelAct(o) = "tailcall" => o \in DOMAIN progs_map[at]
             /\ o \in DOMAIN progs_map[at] =>
                  progs_map[at][o] = els[o + 1].nf /\ els[o + 1].nf \in XdpBins
             /\ ~Faulty(at) =>
                  /\ o + 1 \in 1..Len(els)
                  /\ KernelAct(o) = ActOf(chain.link[at].state, o).kind
                  /\ els[o + 1] = ActOf(chain.link[at].state, o)
                  /\ FateOK(at, o, IF KernelAct(o) \in {"upcall", "tailcall", "abort"} THEN "drop"
                                   ELSE KernelAct(o))
<1> DEFINE els == chain.link[at].state.acts
<1>1. o \in Nat /\ cfg \in Config /\ Sealed(chain) /\ Live /\ at \in progs /\ at \in cfg.functions
  BY InKernel
<1>2. /\ o + 1 \in 1..Len(els) => KernelAct(o) = els[o + 1].kind
      /\ o + 1 \notin 1..Len(els) => KernelAct(o) \in {"tx", "pass"}
      /\ o \in DOMAIN progs_map[at] <=> o + 1 \in 1..Len(els) /\ els[o + 1].kind = "tailcall"
      /\ o \in DOMAIN progs_map[at] => progs_map[at][o] = els[o + 1].nf
  BY <1>1, KernelFacts
<1>3. o + 1 \in 1..Len(els) =>
        /\ els[o + 1].kind \in Special \union {"upcall", "tailcall"}
        /\ els[o + 1].kind = "tailcall" => els[o + 1].nf \in XdpBins
  BY <1>1, TargetFacts
<1>4. els[o + 1] = ActOf(chain.link[at].state, o)
  BY DEF ActOf
<1>5. ASSUME ~Faulty(at)
      PROVE  LET action == ActOf(chain.link[at].state, o)
             IN  /\ o + 1 \in 1..Len(els)
                 /\ action.kind \in {"upcall", "tailcall"} => FateOK(at, o, "drop")
                 /\ action.kind \notin {"upcall", "tailcall"} =>
                      FateOK(at, o, IF action.kind = "abort" THEN "drop" ELSE action.kind)
  BY <1>1, <1>5, ActionFacts
<1> HIDE DEF els
<1>6. {"tx", "pass"} \subseteq Special /\ Special \cap {"upcall", "tailcall"} = {}
  BY DEF Special
<1>7. ASSUME ~Faulty(at)
      PROVE  /\ o + 1 \in 1..Len(els)
             /\ KernelAct(o) = ActOf(chain.link[at].state, o).kind
             /\ FateOK(at, o, IF KernelAct(o) \in {"upcall", "tailcall", "abort"} THEN "drop"
                              ELSE KernelAct(o))
  <2>1. o + 1 \in 1..Len(els) /\ KernelAct(o) = ActOf(chain.link[at].state, o).kind
    BY <1>2, <1>4, <1>5, <1>7
  <2>2. QED
    BY <1>5, <1>7, <2>1
<1>8. KernelAct(o) \in Special \union {"upcall", "tailcall"}
  BY <1>2, <1>3, <1>6
<1>9. KernelAct(o) \in {"upcall", "tailcall"} =>
        o + 1 \in 1..Len(els) /\ els[o + 1].kind = KernelAct(o)
  BY <1>2, <1>6
<1>10. QED
  BY <1>1, <1>2, <1>3, <1>4, <1>7, <1>8, <1>9 DEF els

\* A special action ends the walk in the kernel.
LEMMA RunLinkKeeps ==
  ASSUME InstallInv, PacketInv, UNCHANGED installVars, RunLink
  PROVE  PacketInv'
<1>1. /\ where = "kernel" /\ ~chain.link[at].state.tail /\ where' = "done"
      /\ UNCHANGED <<at, hops>> /\ out' \in cfg.variants[at]
  BY DEF RunLink, End
<1>2. PICK o \in cfg.variants[at] : out' = o
  BY <1>1
<1>3. /\ KernelAct(o) \notin {"upcall", "tailcall"}
      /\ fate' = IF KernelAct(o) = "abort" THEN "drop" ELSE KernelAct(o)
  BY <1>2 DEF RunLink, End
<1>4. /\ KernelAct(o) \in Special \union {"upcall", "tailcall"}
      /\ ~Faulty(at) =>
           FateOK(at, o, IF KernelAct(o) \in {"upcall", "tailcall", "abort"} THEN "drop"
                         ELSE KernelAct(o))
  BY <1>1, BranchFacts
<1>5. PICK e : e = IF KernelAct(o) = "abort" THEN "drop" ELSE KernelAct(o)
  OBVIOUS
<1>6. e \in {"tx", "drop", "pass"} /\ fate' = e /\ (~Faulty(at) => FateOK(at, o, e))
  BY <1>3, <1>4, <1>5 DEF Special
<1>7. QED
  BY <1>1, <1>2, <1>6, InKernel, EndKeeps

\* A tailcall finds its program unless the limit is reached.
LEMMA RunTailcallKeeps ==
  ASSUME InstallInv, PacketInv, UNCHANGED installVars, RunTailcall
  PROVE  PacketInv'
<1>1. where = "kernel" /\ ~chain.link[at].state.tail /\ out' \in cfg.variants[at]
  BY DEF RunTailcall
<1>2. PICK o \in cfg.variants[at] : out' = o
  BY <1>1
<1>3. /\ KernelAct(o) = "tailcall"
      /\ IF o \in DOMAIN progs_map[at] /\ hops < TailLimit
         THEN at' = progs_map[at][o] /\ hops' = hops + 1 /\ UNCHANGED <<where, fate>>
         ELSE where' = "done" /\ fate' = "drop" /\ UNCHANGED <<at, hops>>
  BY <1>2 DEF RunTailcall, End
<1>4. CASE o \in DOMAIN progs_map[at] /\ hops < TailLimit
  <2>1. at' \in progs /\ at' \in cfg.functions
    BY <1>1, <1>3, <1>4, BranchFacts, InKernel DEF XdpBins
  <2>2. hops' \in 0..TailLimit
    BY <1>1, <1>3, <1>4, InKernel, WalkAssumption
  <2>3. QED
    BY <1>1, <1>3, <1>4, <2>1, <2>2, InKernel, OnKeeps
<1>5. CASE ~(o \in DOMAIN progs_map[at] /\ hops < TailLimit)
  <2>1. ~Faulty(at) => FateOK(at, o, "drop")
    BY <1>1, <1>3, BranchFacts
  <2>2. QED
    BY <1>1, <1>2, <1>3, <1>5, <2>1, InKernel, EndKeeps
<1>6. QED
  BY <1>4, <1>5

\* An upcall leaves metadata that name it, or loses the packet.
LEMMA RunUpcallKeeps ==
  ASSUME InstallInv, PacketInv, UNCHANGED installVars, RunUpcall
  PROVE  PacketInv'
<1>1. /\ where = "kernel" /\ ~chain.link[at].state.tail /\ out' \in cfg.variants[at]
      /\ UNCHANGED <<at, hops>>
  BY DEF RunUpcall
<1>2. PICK o \in cfg.variants[at] : out' = o
  BY <1>1
<1>3. KernelAct(o) = "upcall"
  BY <1>2 DEF RunUpcall
<1>4. CASE where' = "queued" /\ meta' = [prog_id |-> prog_id[at], act |-> out'] /\ UNCHANGED fate
  <2>1. UNCHANGED <<chain, progs, prog_id, cfg>>
    BY DEF installVars, serverVars, clientVars, tables
  <2>2. o + 1 \in 1..Len(chain.link[at].state.acts) /\ chain.link[at].state.acts[o + 1].kind = "upcall"
    BY <1>1, <1>3, BranchFacts
  <2>3. QueuedInv'
    BY <1>1, <1>2, <1>4, <2>1, <2>2, InKernel DEF QueuedInv
  <2>4. QED
    BY <1>1, <1>4, <2>3, InKernel, OnKeeps
<1>5. CASE where' = "done" /\ fate' = "drop"
  <2>1. ~Faulty(at) => FateOK(at, o, "drop")
    BY <1>1, <1>3, BranchFacts
  <2>2. QED
    BY <1>1, <1>2, <1>5, <2>1, InKernel, EndKeeps
<1>6. QED
  BY <1>4, <1>5 DEF RunUpcall, End

\* What is known of a packet in the queue.
LEMMA InQueue ==
  ASSUME InstallInv, PacketInv, where = "queued"
  PROVE  LET action == chain.link[at].state.acts[out + 1]
         IN  /\ Live /\ cfg \in Config /\ Sealed(chain)
             /\ at \in cfg.functions /\ at \in progs /\ ~chain.link[at].state.tail
             /\ out \in cfg.variants[at] /\ out \in Nat
             /\ out + 1 \in 1..Len(chain.link[at].state.acts)
             /\ action = ActOf(chain.link[at].state, out)
             /\ action.kind = "upcall"
             /\ action.nf \in cfg.functions
             /\ action.nf \in Userland
             /\ hops \in 0..TailLimit
             /\ fate = "none"
<1>1. /\ Live /\ at \in cfg.functions /\ QueuedInv /\ hops \in 0..TailLimit /\ fate = "none"
  BY DEF PacketInv, PacketTypeOK
<1>2. cfg \in Config /\ Sealed(chain)
  BY <1>1, LiveFacts
<1>3. /\ at \in progs /\ ~chain.link[at].state.tail /\ out \in cfg.variants[at]
      /\ out + 1 \in 1..Len(chain.link[at].state.acts)
      /\ chain.link[at].state.acts[out + 1].kind = "upcall"
  BY <1>1 DEF QueuedInv
<1>4. out \in Nat
  BY <1>1, <1>2, <1>3, ChainsmithAssumption
<1>5. /\ chain.link[at].state.acts[out + 1].nf \in cfg.functions
      /\ chain.link[at].state.acts[out + 1].nf \in Userland
  BY <1>1, <1>2, <1>3, TargetFacts
<1>6. chain.link[at].state.acts[out + 1] = ActOf(chain.link[at].state, out)
  BY <1>3 DEF ActOf
<1>7. QED
  BY <1>1, <1>2, <1>3, <1>4, <1>5, <1>6

\* A packet lost on its way to userland is dropped.
LEMMA MisreadKeeps ==
  ASSUME InstallInv, PacketInv, UNCHANGED installVars, Misread
  PROVE  PacketInv'
<1>1. where = "queued" /\ where' = "done" /\ fate' = "drop" /\ UNCHANGED <<at, out, hops>>
  BY DEF Misread, End
<1>2. PICK o \in cfg.variants[at] : out' = o /\ o = out
  BY <1>1, InQueue
<1>3. ASSUME ~Faulty(at) PROVE FateOK(at, o, "drop")
  <2>1. ActOf(chain.link[at].state, o).kind = "upcall"
    BY <1>1, <1>2, InQueue
  <2>2. QED
    BY <1>1, <1>2, <1>3, <2>1, InQueue, ActionFacts
<1>4. QED
  BY <1>1, <1>2, <1>3, EndKeeps

\* The metadata of an upcall are enough to find the function it is for: no
\* unwrap of the lookup fails.
LEMMA LookupFacts ==
  ASSUME InstallInv, PacketInv, where = "queued"
  PROVE  Lookup = chain.link[at].state.acts[out + 1].nf
<1> DEFINE state == chain.link[at].state
<1>1. /\ meta = [prog_id |-> prog_id[at], act |-> out]
      /\ Live /\ at \in progs /\ at \in cfg.functions /\ ~state.tail
      /\ out + 1 \in 1..Len(state.acts) /\ out \in Nat
      /\ state.acts[out + 1] = ActOf(state, out)
      /\ cfg \in Config /\ Sealed(chain)
  BY InQueue DEF PacketInv, QueuedInv
<1>2. at \in DOMAIN link_states /\ link_states[at] = state /\ WiredNf(at, n)
  BY <1>1, LiveFacts
<1>3. meta.prog_id \in DOMAIN instance_ids /\ instance_ids[meta.prog_id] = at /\ meta.act = out
  BY <1>1, <1>2 DEF WiredNf
<1>4. Len(state.acts) \in Nat
  BY <1>1, SealedLengths
<1>5. ~ActPanics(state, out)
  BY <1>1, <1>4 DEF ActPanics
<1> HIDE DEF state
<1>6. Lookup = NextNf(ActOf(state, out))
  BY <1>2, <1>3, <1>5 DEF Lookup
<1>7. QED
  BY <1>1, <1>6 DEF NextNf, state

\* A thread takes over.
LEMMA ReceiveKeeps ==
  ASSUME InstallInv, PacketInv, UNCHANGED installVars, Receive
  PROVE  PacketInv'
<1>1. where = "queued" /\ client = "run" /\ UNCHANGED hops
  BY DEF Receive
<1>2. Lookup \in cfg.functions /\ Lookup \in Userland /\ hops \in 0..TailLimit /\ Live /\ cfg \in Config
  BY <1>1, InQueue, LookupFacts
<1>3. Lookup # NoNf
  BY <1>2, FileFacts
<1>4. where' = "user" /\ at' = Lookup /\ UNCHANGED fate
  BY <1>3 DEF Receive
<1>5. QED
  BY <1>1, <1>2, <1>4, OnKeeps

\* What is known of a packet in userland.
LEMMA InUser ==
  ASSUME InstallInv, PacketInv, where = "user"
  PROVE  /\ Live /\ client = "run" /\ cfg \in Config /\ Sealed(chain)
         /\ at \in cfg.functions /\ at \in Userland /\ at \in dylibs
         /\ link_states[at] = chain.link[at].state
         /\ UserReturns \subseteq Nat
         /\ ~Faulty(at) => UserReturns = cfg.variants[at]
         /\ hops \in 0..TailLimit
         /\ fate = "none"
<1>1. /\ Live /\ client = "run" /\ at \in cfg.functions /\ at \in Userland
      /\ hops \in 0..TailLimit /\ fate = "none"
  BY DEF PacketInv, PacketTypeOK
<1>2. QED
  BY <1>1, LiveFacts, UserFacts

\* The function runs, and its action is found.
LEMMA RunUserKeeps ==
  ASSUME InstallInv, PacketInv, UNCHANGED installVars, RunUser
  PROVE  PacketInv'
<1> DEFINE state == chain.link[at].state
<1>1. where = "user" /\ UNCHANGED hops
  BY DEF RunUser
<1>2. PICK o \in UserReturns :
        /\ out' = o
        /\ ~UserPanics(o)
        /\ \/ /\ ActOf(state, o).kind \in {"tailcall", "upcall"}
              /\ at' = ActOf(state, o).nf
              /\ UNCHANGED <<where, fate>>
           \/ /\ ActOf(state, o).kind \notin {"tailcall", "upcall"}
              /\ where' = "done"
              /\ fate' = IF ActOf(state, o).kind = "tx" THEN "tx" ELSE "drop"
              /\ UNCHANGED at
  BY <1>1, InUser DEF RunUser, End, NextNf
<1>3. CASE ActOf(state, o).kind \in {"tailcall", "upcall"}
  <2>1. o \in Nat /\ ~ActPanics(state, o)
    BY <1>1, <1>2, InUser DEF UserPanics
  <2>2. ~state.tail
    BY <1>3 DEF ActOf, Act
  <2>3. Len(state.acts) \in Nat
    BY <1>1, InUser, SealedLengths
  <2>4. o + 1 \in 1..Len(state.acts) /\ ActOf(state, o) = state.acts[o + 1]
    BY <2>1, <2>2, <2>3 DEF ActPanics, ActOf
  <2>5. ActOf(state, o).nf \in cfg.functions /\ ActOf(state, o).nf \in Userland
    BY <1>1, <1>3, <2>4, InUser, TargetFacts
  <2>6. QED
    BY <1>1, <1>2, <1>3, <2>5, InUser, OnKeeps
<1>4. CASE ActOf(state, o).kind \notin {"tailcall", "upcall"}
  <2>1. PICK e : e = IF ActOf(state, o).kind = "tx" THEN "tx" ELSE "drop"
    OBVIOUS
  <2>2. ASSUME ~Faulty(at), ~Swallows(at) PROVE FateOK(at, o, e)
    <3>1. /\ ActOf(state, o).kind \in Special \ {"pass"}
          /\ FateOK(at, o, IF ActOf(state, o).kind = "abort" THEN "drop" ELSE ActOf(state, o).kind)
      BY <1>1, <1>2, <1>4, <2>2, InUser, ActionFacts
    <3>2. QED
      BY <2>1, <3>1 DEF Special
  <2>3. QED
    BY <1>1, <1>2, <1>4, <2>1, <2>2, EndKeeps
<1>5. QED
  BY <1>3, <1>4

\* A thread only panics over a faulty function.
LEMMA CrashUserKeeps ==
  ASSUME InstallInv, PacketInv, UNCHANGED installVars, CrashUser
  PROVE  PacketInv' /\ Faulty(at)
<1>1. where = "user" /\ where' = "done" /\ fate' = "crash" /\ UNCHANGED <<at, hops>>
  BY DEF CrashUser, End
<1>2. PICK o \in UserReturns : UserPanics(o)
  BY DEF CrashUser
<1>3. Faulty(at)
  BY <1>1, <1>2, InUser, ActionFacts DEF UserPanics
<1>4. QED
  BY <1>1, <1>3, CrashKeeps

\* What a packet depends on does not change any more once the root is attached.
LEMMA LiveStep ==
  ASSUME [InstallNext]_installVars
  PROVE  /\ cfg' = cfg
         /\ Live => /\ Live'
                    /\ UNCHANGED <<chain, progs, prog_id>>
                    /\ client = "run" => client' = "run"
<1>1. CASE UNCHANGED clientVars /\ [ServerNext]_serverVars
  BY <1>1, ServerKeepsFile DEF clientVars, tables, Live
<1>2. CASE ClientNext /\ UNCHANGED serverVars
  <2>1. cfg' = cfg
    BY <1>2 DEF serverVars
  <2>2. ASSUME Live PROVE LoadDylibs \/ FailDylibs
    BY <1>2, <2>2 DEF Live, ClientNext, GetChain, LoseServer, Load, SkipLink, LoadLink, FailLoad,
                      FailSeed, EndLoad, Wire, WireLink, NoteLink, FailWire, Attach, FailAttach, KernelRefuses
  <2>3. QED
    BY <2>1, <2>2 DEF LoadDylibs, FailDylibs, GiveUp, tables, Live
<1>3. QED
  BY <1>1, <1>2 DEF InstallNext, installVars

\* Steps of the two programs leave the packet alone.
LEMMA InstallStepKeeps ==
  ASSUME PacketInv, [InstallNext]_installVars, UNCHANGED packetVars
  PROVE  PacketInv'
<1>1. UNCHANGED <<where, at, out, meta, hops, fate>>
  BY DEF packetVars
<1>2. /\ cfg' = cfg
      /\ Live => Live' /\ UNCHANGED <<chain, progs, prog_id>> /\ (client = "run" => client' = "run")
  BY LiveStep
<1>3. PacketTypeOK'
  BY <1>1, <1>2 DEF PacketInv, PacketTypeOK
<1>4. where' # "idle" => Live' /\ at' \in cfg'.functions /\ UNCHANGED <<chain, progs, prog_id>>
  BY <1>1, <1>2 DEF PacketInv
<1>5. where' = "queued" => QueuedInv'
  BY <1>1, <1>2, <1>4 DEF PacketInv, QueuedInv
<1>6. Userland' = Userland
  BY <1>2, FaultsKept
<1>7. /\ where' = "kernel" => at' \in progs'
      /\ where' = "user" => client' = "run" /\ at' \in Userland'
  BY <1>1, <1>2, <1>4, <1>6 DEF PacketInv
<1>8. PICK f : f = at
  OBVIOUS
<1>9. (Faulty(at)' <=> Faulty(f)) /\ (Swallows(at)' <=> Swallows(f))
  BY <1>1, <1>2, <1>8, FaultsKept
<1>10. FateAsConfigured' <=> FateAsConfigured
  BY <1>1, <1>2 DEF FateAsConfigured
<1>11. CrashExplained' /\ FateExplained'
  BY <1>1, <1>8, <1>9, <1>10 DEF PacketInv, CrashExplained, NoCrash, FateExplained
<1>12. QED
  BY <1>3, <1>4, <1>5, <1>7, <1>11 DEF PacketInv

\* No packet has arrived.
LEMMA WalkInitInv == WalkInit => WalkInv
<1> SUFFICES ASSUME WalkInit PROVE WalkInv
  OBVIOUS
<1>1. InstallInv /\ PacketInit
  BY InstallInitInv DEF WalkInit
<1>2. PacketInv
  BY <1>1, WalkAssumption DEF PacketInit, PacketInv, PacketTypeOK, CrashExplained, NoCrash,
                              FateExplained, FateAsConfigured
<1>3. QED
  BY <1>1, <1>2 DEF WalkInv

\* Every step, of the two programs, the kernel or a dataplane thread.
LEMMA WalkNextKeeps ==
  ASSUME WalkInv, [WalkNext]_walkVars
  PROVE  WalkInv'
<1>1. InstallInv /\ PacketInv
  BY DEF WalkInv
<1>2. CASE [InstallNext]_installVars /\ UNCHANGED packetVars
  BY <1>1, <1>2, InstallNextKeeps, InstallStepKeeps DEF WalkInv
<1>3. CASE PacketNext /\ UNCHANGED installVars
  <2>1. InstallInv'
    BY <1>1, <1>3, InstallNextKeeps
  <2>2. PacketInv'
    <3>1. CASE Kernel
      BY <1>1, <1>3, <3>1, ArriveKeeps, RunEndKeeps, RunLinkKeeps, RunTailcallKeeps, RunUpcallKeeps
         DEF Kernel
    <3>2. CASE User
      BY <1>1, <1>3, <3>2, MisreadKeeps, ReceiveKeeps, RunUserKeeps, CrashUserKeeps DEF User
    <3>3. QED
      BY <1>3, <3>1, <3>2 DEF PacketNext
  <2>3. QED
    BY <2>1, <2>2 DEF WalkInv
<1>4. QED
  BY <1>2, <1>3 DEF WalkNext, walkVars
-----------------------------------------------------------------------------
(***************************************************************************)
(* The chain of a sound file does what the file says: every step is one of *)
(* ChainWalk, or leaves its state unchanged.                               *)
(***************************************************************************)

\* Where the packet is in the abstract walk.
LEMMA OnwardFacts ==
  ASSUME PacketInv
  PROVE  /\ where = "idle" => Onward = "rx"
         /\ where \in {"kernel", "user"} => Onward = at
         /\ where = "queued" => Onward = chain.link[at].state.acts[out + 1].nf
BY DEF PacketInv, PacketTypeOK, Onward, NextNf

\* A function of a sound file.
LEMMA SoundFacts ==
  ASSUME Sound, NEW f \in cfg.functions
  PROVE  ~Faulty(f) /\ ~Swallows(f)
BY DEF Sound

\* From one function to the next: at once, into the queue, or lost on the way.
LEMMA MoveStep ==
  ASSUME Sound, cfg' = cfg, fate = "none", where # "queued",
         NEW f \in cfg.functions, Onward = f,
         NEW g \in cfg.functions, Onward' = g,
         NEW o \in cfg.variants[f], ByTheBook!Leads(f, o, g),
         \/ fate' = fate
         \/ fate' = "drop" /\ where' # "queued"
  PROVE  ByTheBook!Move
<1>1. Sound' = TRUE /\ Sound = TRUE
  <2>1. Sound' <=> Sound
    BY FaultsKept
  <2>2. QED
    BY <2>1
<1> DEFINE A == IF Sound THEN Onward ELSE "rx"
           T == Sound /\ where = "queued"
           F == IF Sound THEN fate ELSE "none"
<1>2. A = f /\ A' = g /\ F = fate /\ F' = fate'
  BY <1>1
<1>3. T = FALSE /\ T' \in BOOLEAN
  OBVIOUS
<1>4. where' # "queued" => T' = FALSE
  OBVIOUS
<1>5. A \in cfg.functions /\ A' \in cfg.functions
  BY <1>2
<1>6. \E x \in cfg.variants[A] : ByTheBook!Leads(A, x, A')
  BY <1>2
<1>7. F = "none" /\ ~T
  BY <1>2
<1> HIDE DEF A, T, F
<1>8. (T' \in BOOLEAN /\ UNCHANGED F) \/ (F' = "drop" /\ UNCHANGED T)
  <2>1. CASE fate' = fate
    BY <1>2, <1>3, <2>1
  <2>2. CASE fate' = "drop" /\ where' # "queued"
    <3>1. F' = "drop" /\ T' = T
      BY <1>2, <1>3, <1>4, <2>2
    <3>2. QED
      BY <3>1
  <2>3. QED
    BY <2>1, <2>2
<1>9. /\ F = "none"
      /\ ~T
      /\ A \in cfg.functions
      /\ A' \in cfg.functions
      /\ \E x \in cfg.variants[A] : ByTheBook!Leads(A, x, A')
      /\ (T' \in BOOLEAN /\ UNCHANGED F) \/ (F' = "drop" /\ UNCHANGED T)
      /\ UNCHANGED cfg
  BY <1>5, <1>6, <1>7, <1>8
<1>10. QED
  BY <1>9 DEF ByTheBook!Move, A, T, F

\* A special target decides.
LEMMA DecideStep ==
  ASSUME Sound, cfg' = cfg, fate = "none", where \notin {"idle", "queued"}, where' = "done",
         NEW f \in cfg.functions, Onward = f, Onward' = f,
         NEW name \in Special, NEW o \in cfg.variants[f], ByTheBook!Leads(f, o, name),
         fate' = IF name = "abort" THEN "drop" ELSE name
  PROVE  ByTheBook!Decide
<1>1. Sound' <=> Sound
  BY FaultsKept
<1> DEFINE A == IF Sound THEN Onward ELSE "rx"
           T == Sound /\ where = "queued"
           F == IF Sound THEN fate ELSE "none"
<1>2. A = f /\ A' = f /\ F = "none" /\ F' = fate'
  BY <1>1
<1>3. T = FALSE /\ T' = FALSE
  OBVIOUS
<1>4. name \in {"tx", "drop", "abort", "pass"} /\ fate' = ByTheBook!FateOf(name)
  BY DEF Special, ByTheBook!FateOf
<1> HIDE DEF A, T, F
<1>5. /\ F = "none"
      /\ ~T
      /\ A \in cfg.functions
      /\ \E x \in cfg.variants[A], w \in {"tx", "drop", "abort", "pass"} :
           ByTheBook!Leads(A, x, w) /\ F' = ByTheBook!FateOf(w)
      /\ UNCHANGED <<cfg, A, T>>
  BY <1>2, <1>3, <1>4
<1>6. QED
  BY <1>5 DEF ByTheBook!Decide, A, T, F

\* A packet that was on its way arrives, or is lost.
LEMMA LandStep ==
  ASSUME Sound, cfg' = cfg, where = "queued", where' # "queued", Onward' = Onward,
         fate' \in {"none", "drop"}
  PROVE  ByTheBook!Land
<1>1. Sound' <=> Sound
  BY FaultsKept
<1> DEFINE A == IF Sound THEN Onward ELSE "rx"
           T == Sound /\ where = "queued"
           F == IF Sound THEN fate ELSE "none"
<1>2. A' = A /\ F' = fate'
  BY <1>1
<1>3. T /\ T' = FALSE
  OBVIOUS
<1> HIDE DEF A, T, F
<1>4. T /\ T' = FALSE /\ F' \in {"none", "drop"} /\ UNCHANGED <<cfg, A>>
  BY <1>2, <1>3
<1>5. QED
  BY <1>4 DEF ByTheBook!Land, A, T, F

\* Nothing happens in the abstract walk.
LEMMA AbstractStutter ==
  ASSUME cfg' = cfg,
         Sound => UNCHANGED <<fate, where>> /\ Onward' = Onward
  PROVE  UNCHANGED ByTheBook!walkVars
<1>1. Sound' <=> Sound
  BY FaultsKept
<1> DEFINE A == IF Sound THEN Onward ELSE "rx"
           T == Sound /\ where = "queued"
           F == IF Sound THEN fate ELSE "none"
<1>2. A' = A /\ F' = F
  BY <1>1
<1>3. T' = T
  <2>1. T' <=> T
    BY <1>1
  <2>2. T \in BOOLEAN /\ T' \in BOOLEAN
    OBVIOUS
  <2> HIDE DEF T
  <2>3. QED
    BY <2>1, <2>2
<1> HIDE DEF A, T, F
<1>4. UNCHANGED <<cfg, A, T, F>>
  BY <1>2, <1>3
<1>5. QED
  BY <1>4 DEF ByTheBook!walkVars, A, T, F

\* Where a packet is once its walk has ended: where it was, unless it was lost on
\* its way to another function.
LEMMA EndedAt ==
  ASSUME UNCHANGED <<chain, at>>, where' = "done", NEW o, out' = o
  PROVE  LET state == chain.link[at].state
             lost  == /\ fate' = "drop" /\ ~state.tail /\ o + 1 \in 1..Len(state.acts)
                      /\ state.acts[o + 1].nf # NoNf
         IN  Onward' = IF lost THEN state.acts[o + 1].nf ELSE at
BY DEF Onward, NextNf

\* The root is the function that rx leads to.
LEMMA ArriveEnters ==
  ASSUME InstallInv, PacketInv, Sound, UNCHANGED installVars, Arrive
  PROVE  ByTheBook!Enter
<1>1. cfg' = cfg
  BY DEF installVars, serverVars
<1>2. Sound' <=> Sound
  BY <1>1, FaultsKept
<1>3. attached = root /\ client \in {"dylibs", "run"} /\ progs \subseteq cfg.functions
  BY DEF Arrive, InstallInv, ClientInv, AttachedInv, InstallTypeOK
<1>4. Sealed(chain) /\ root \in cfg.functions /\ chain.link[root].root /\ cfg \in Config
  BY <1>3, LiveFacts DEF Live
<1>5. PICK g \in cfg.functions : RootIs(chain.link, g)
  BY <1>4 DEF Sealed
<1>6. g = root
  BY <1>4, <1>5 DEF RootIs
<1>7. PICK j \in FromLinks("rx") : Len(cfg.links[j].to) = 1 /\ cfg.links[j].to[1].name = g
  BY <1>5 DEF RootIs
<1>8. ByTheBook!Leads("rx", 0, g)
  <2>1. 0 + 1 = 1 /\ 1 \in 1..Len(cfg.links[j].to)
    BY <1>7
  <2>2. QED
    BY <1>7, <2>1 DEF ByTheBook!Leads, FromLinks
<1> DEFINE A == IF Sound THEN Onward ELSE "rx"
           T == Sound /\ where = "queued"
           F == IF Sound THEN fate ELSE "none"
<1>9. where = "idle" /\ where' = "kernel" /\ at' = g /\ fate' = fate /\ fate = "none"
  BY <1>3, <1>6 DEF Arrive, PacketInv, PacketTypeOK
<1>10. Onward = "rx" /\ Onward' = g
  BY <1>9 DEF Onward
<1>11. A = "rx" /\ A' = g /\ F' = F
  BY <1>2, <1>9, <1>10
<1>12. T = FALSE /\ T' = FALSE
  BY <1>9
<1> HIDE DEF A, T, F
<1>13. A = "rx" /\ A' \in cfg.functions /\ ByTheBook!Leads("rx", 0, A') /\ UNCHANGED <<cfg, T, F>>
  BY <1>1, <1>8, <1>11, <1>12
<1>14. QED
  BY <1>13 DEF ByTheBook!Enter, A, T, F

\* The kernel: an `end` program.
LEMMA RunEndDecides ==
  ASSUME InstallInv, PacketInv, Sound, UNCHANGED installVars, RunEnd
  PROVE  ByTheBook!Decide
<1>1. /\ where = "kernel" /\ chain.link[at].state.tail /\ where' = "done" /\ fate' = "tx"
      /\ UNCHANGED at /\ UNCHANGED <<cfg, chain>>
  BY DEF RunEnd, End, installVars, serverVars, clientVars
<1>2. PICK o \in cfg.variants[at] : out' = o
  BY DEF RunEnd
<1>3. ~Faulty(at) /\ at \in cfg.functions /\ fate = "none" /\ cfg \in Config /\ Sealed(chain)
  BY <1>1, InKernel, SoundFacts
<1>4. ActOf(chain.link[at].state, o).kind = "tx"
  BY <1>1 DEF ActOf, Act
<1>5. ByTheBook!Leads(at, o, "tx")
  BY <1>2, <1>3, <1>4, ActionFacts
<1>6. Onward = at /\ Onward' = at
  BY <1>1, <1>2, OnwardFacts, EndedAt
<1>7. "tx" \in Special
  BY DEF Special
<1>8. QED
  BY <1>1, <1>2, <1>3, <1>5, <1>6, <1>7, DecideStep

\* A branching program of a sound file does what the link says.
LEMMA SoundBranch ==
  ASSUME InstallInv, PacketInv, Sound, where = "kernel", ~chain.link[at].state.tail,
         NEW o \in cfg.variants[at]
  PROVE  LET action == chain.link[at].state.acts[o + 1]
         IN  /\ o + 1 \in 1..Len(chain.link[at].state.acts)
             /\ KernelAct(o) = action.kind
             /\ action.kind \in {"upcall", "tailcall"} =>
                  action.nf \in cfg.functions /\ ByTheBook!Leads(at, o, action.nf)
             /\ action.kind \notin {"upcall", "tailcall"} =>
                  /\ action.nf = NoNf
                  /\ action.kind \in Special
                  /\ ByTheBook!Leads(at, o, action.kind)
             /\ NoNf \notin cfg.functions
             /\ at \in cfg.functions /\ fate = "none" /\ Onward = at
<1>1. ~Faulty(at) /\ at \in cfg.functions /\ fate = "none" /\ cfg \in Config /\ Sealed(chain)
  BY InKernel, SoundFacts
<1>2. /\ o + 1 \in 1..Len(chain.link[at].state.acts)
      /\ KernelAct(o) = ActOf(chain.link[at].state, o).kind
      /\ chain.link[at].state.acts[o + 1] = ActOf(chain.link[at].state, o)
  BY <1>1, BranchFacts
<1>3. LET action == ActOf(chain.link[at].state, o)
      IN  /\ action.kind \in {"upcall", "tailcall"} =>
               action.nf \in cfg.functions /\ ByTheBook!Leads(at, o, action.nf)
          /\ action.kind \notin {"upcall", "tailcall"} =>
               /\ action.nf = NoNf
               /\ action.kind \in Special
               /\ ByTheBook!Leads(at, o, action.kind)
  BY <1>1, ActionFacts
<1>4. Onward = at /\ NoNf \notin cfg.functions
  BY <1>1, OnwardFacts, FileFacts
<1>5. QED
  BY <1>1, <1>2, <1>3, <1>4

\* The kernel: a special action.
LEMMA RunLinkDecides ==
  ASSUME InstallInv, PacketInv, Sound, UNCHANGED installVars, RunLink
  PROVE  ByTheBook!Decide
<1>1. /\ where = "kernel" /\ ~chain.link[at].state.tail /\ where' = "done"
      /\ UNCHANGED at /\ UNCHANGED <<cfg, chain>>
  BY DEF RunLink, End, installVars, serverVars, clientVars
<1>2. PICK o \in cfg.variants[at] : out' = o
  BY DEF RunLink
<1>3. /\ KernelAct(o) \notin {"upcall", "tailcall"}
      /\ fate' = IF KernelAct(o) = "abort" THEN "drop" ELSE KernelAct(o)
  BY <1>2 DEF RunLink, End
<1>4. /\ chain.link[at].state.acts[o + 1].nf = NoNf
      /\ KernelAct(o) \in Special
      /\ ByTheBook!Leads(at, o, KernelAct(o))
      /\ at \in cfg.functions /\ fate = "none" /\ Onward = at
  BY <1>1, <1>3, SoundBranch
<1>5. Onward' = at
  BY <1>1, <1>2, <1>4, EndedAt
<1>6. QED
  BY <1>1, <1>2, <1>3, <1>4, <1>5, DecideStep

\* The kernel: a tailcall.
LEMMA RunTailcallMoves ==
  ASSUME InstallInv, PacketInv, Sound, UNCHANGED installVars, RunTailcall
  PROVE  ByTheBook!Move
<1>1. /\ where = "kernel" /\ ~chain.link[at].state.tail /\ UNCHANGED <<cfg, chain>>
  BY DEF RunTailcall, installVars, serverVars, clientVars
<1>2. PICK o \in cfg.variants[at] : out' = o
  BY DEF RunTailcall
<1>3. /\ KernelAct(o) = "tailcall"
      /\ IF o \in DOMAIN progs_map[at] /\ hops < TailLimit
         THEN at' = progs_map[at][o] /\ UNCHANGED <<where, fate>>
         ELSE where' = "done" /\ fate' = "drop" /\ UNCHANGED at
  BY <1>2 DEF RunTailcall, End
<1> DEFINE g == chain.link[at].state.acts[o + 1].nf
<1>4. /\ g \in cfg.functions /\ g # NoNf /\ ByTheBook!Leads(at, o, g)
      /\ o + 1 \in 1..Len(chain.link[at].state.acts)
      /\ at \in cfg.functions /\ fate = "none" /\ Onward = at
  BY <1>1, <1>3, SoundBranch
<1>5. Onward' = g
  <2>1. CASE o \in DOMAIN progs_map[at] /\ hops < TailLimit
    <3>1. at' = g /\ where' = "kernel" /\ fate' = "none"
      BY <1>1, <1>3, <1>4, <2>1, BranchFacts
    <3>2. QED
      BY <3>1 DEF Onward
  <2>2. CASE ~(o \in DOMAIN progs_map[at] /\ hops < TailLimit)
    BY <1>1, <1>2, <1>3, <1>4, <2>2, EndedAt
  <2>3. QED
    BY <2>1, <2>2
<1>6. fate' = fate \/ (fate' = "drop" /\ where' # "queued")
  BY <1>3
<1> HIDE DEF g
<1>7. QED
  BY <1>1, <1>4, <1>5, <1>6, MoveStep

\* The kernel: an upcall.
LEMMA RunUpcallMoves ==
  ASSUME InstallInv, PacketInv, Sound, UNCHANGED installVars, RunUpcall
  PROVE  ByTheBook!Move
<1>1. /\ where = "kernel" /\ ~chain.link[at].state.tail /\ UNCHANGED <<at, cfg, chain>>
  BY DEF RunUpcall, installVars, serverVars, clientVars
<1>2. PICK o \in cfg.variants[at] : out' = o
  BY DEF RunUpcall
<1>3. /\ KernelAct(o) = "upcall"
      /\ \/ where' = "queued" /\ UNCHANGED fate
         \/ where' = "done" /\ fate' = "drop"
  BY <1>2 DEF RunUpcall, End
<1> DEFINE g == chain.link[at].state.acts[o + 1].nf
<1>4. /\ g \in cfg.functions /\ g # NoNf /\ ByTheBook!Leads(at, o, g)
      /\ o + 1 \in 1..Len(chain.link[at].state.acts)
      /\ at \in cfg.functions /\ fate = "none" /\ Onward = at
  BY <1>1, <1>3, SoundBranch
<1>5. Onward' = g
  <2>1. CASE where' = "queued"
    BY <1>1, <1>2, <2>1 DEF Onward, NextNf
  <2>2. CASE where' = "done" /\ fate' = "drop"
    BY <1>1, <1>2, <1>4, <2>2, EndedAt
  <2>3. QED
    BY <1>3, <2>1, <2>2
<1>6. fate' = fate \/ (fate' = "drop" /\ where' # "queued")
  BY <1>3
<1> HIDE DEF g
<1>7. QED
  BY <1>1, <1>4, <1>5, <1>6, MoveStep

\* The queue loses a packet, or a thread takes it.
LEMMA QueueLands ==
  ASSUME InstallInv, PacketInv, Sound, UNCHANGED installVars, Misread \/ Receive
  PROVE  ByTheBook!Land
<1>1. where = "queued" /\ UNCHANGED <<cfg, chain, out>>
  BY DEF Misread, Receive, installVars, serverVars, clientVars
<1> DEFINE g == chain.link[at].state.acts[out + 1].nf
<1>2. /\ g \in cfg.functions /\ fate = "none" /\ Onward = g /\ cfg \in Config
      /\ ~chain.link[at].state.tail /\ out + 1 \in 1..Len(chain.link[at].state.acts)
  BY <1>1, InQueue, OnwardFacts
<1>3. g # NoNf
  BY <1>2, FileFacts
<1>4. CASE Misread
  <2>1. where' = "done" /\ fate' = "drop" /\ UNCHANGED at
    BY <1>4 DEF Misread, End
  <2>2. Onward' = g
    BY <1>1, <1>2, <1>3, <2>1 DEF Onward, NextNf
  <2>3. QED
    BY <1>1, <1>2, <2>1, <2>2, LandStep
<1>5. CASE Receive
  <2>1. where' = "user" /\ at' = g /\ fate' = "none"
    BY <1>1, <1>2, <1>3, <1>5, LookupFacts DEF Receive
  <2>2. Onward' = g
    BY <2>1 DEF Onward
  <2>3. QED
    BY <1>1, <1>2, <2>1, <2>2, LandStep
<1>6. QED
  BY <1>4, <1>5

\* Userland.
LEMMA RunUserWalks ==
  ASSUME InstallInv, PacketInv, Sound, UNCHANGED installVars, RunUser
  PROVE  ByTheBook!Move \/ ByTheBook!Decide
<1> DEFINE state == chain.link[at].state
<1>1. where = "user" /\ UNCHANGED <<cfg, chain>>
  BY DEF RunUser, installVars, serverVars, clientVars
<1>2. /\ cfg \in Config /\ Sealed(chain) /\ at \in cfg.functions /\ at \in Userland
      /\ ~Faulty(at) /\ ~Swallows(at) /\ UserReturns = cfg.variants[at]
      /\ fate = "none" /\ Onward = at
  BY <1>1, InUser, SoundFacts, OnwardFacts
<1>3. PICK o \in cfg.variants[at] :
        /\ out' = o
        /\ \/ /\ ActOf(state, o).kind \in {"tailcall", "upcall"}
              /\ at' = ActOf(state, o).nf
              /\ UNCHANGED <<where, fate>>
           \/ /\ ActOf(state, o).kind \notin {"tailcall", "upcall"}
              /\ where' = "done"
              /\ fate' = IF ActOf(state, o).kind = "tx" THEN "tx" ELSE "drop"
              /\ UNCHANGED at
  BY <1>1, <1>2, InUser DEF RunUser, End, NextNf
<1>4. CASE ActOf(state, o).kind \in {"tailcall", "upcall"}
  <2>1. ActOf(state, o).nf \in cfg.functions /\ ByTheBook!Leads(at, o, ActOf(state, o).nf)
    BY <1>2, <1>4, ActionFacts
  <2>2. Onward' = ActOf(state, o).nf
    <3>1. at' = ActOf(state, o).nf /\ where' = "user" /\ fate' = "none"
      BY <1>1, <1>2, <1>3, <1>4
    <3>2. QED
      BY <3>1 DEF Onward
  <2>3. QED
    BY <1>1, <1>2, <1>3, <1>4, <2>1, <2>2, MoveStep
<1>5. CASE ActOf(state, o).kind \notin {"tailcall", "upcall"}
  <2>1. /\ ActOf(state, o).nf = NoNf
        /\ ActOf(state, o).kind \in Special \ {"pass"}
        /\ ByTheBook!Leads(at, o, ActOf(state, o).kind)
    BY <1>2, <1>5, ActionFacts
  <2>2. ~state.tail => state.acts[o + 1].nf = NoNf
    BY <2>1 DEF ActOf
  <2>3. where' = "done" /\ UNCHANGED at
    BY <1>3, <1>5
  <2>4. Onward' = at
    BY <1>1, <1>3, <2>2, <2>3, EndedAt
  <2>5. fate' = IF ActOf(state, o).kind = "abort" THEN "drop" ELSE ActOf(state, o).kind
    BY <1>3, <1>5, <2>1 DEF Special
  <2>6. QED
    BY <1>1, <1>2, <2>1, <2>3, <2>4, <2>5, DecideStep
<1>6. QED
  BY <1>4, <1>5

\* The two programs' own steps do not move the packet.
LEMMA InstallStepStutters ==
  ASSUME PacketInv, [InstallNext]_installVars, UNCHANGED packetVars
  PROVE  UNCHANGED ByTheBook!walkVars
<1>1. UNCHANGED <<where, at, out, fate>>
  BY DEF packetVars
<1>2. cfg' = cfg /\ (where # "idle" => UNCHANGED chain)
  BY LiveStep DEF PacketInv
<1>3. Onward' = Onward
  <2>1. CASE where = "idle"
    BY <1>1, <2>1 DEF PacketInv, PacketTypeOK, Onward
  <2>2. CASE where # "idle"
    BY <1>1, <1>2, <2>2 DEF Onward, NextNf
  <2>3. QED
    BY <2>1, <2>2
<1>4. QED
  BY <1>1, <1>2, <1>3, AbstractStutter

\* Every step of the system is a step of the abstract walk, or none.
LEMMA WalkNextWalks ==
  ASSUME WalkInv, [WalkNext]_walkVars
  PROVE  [ByTheBook!Next]_(ByTheBook!walkVars)
<1>1. InstallInv /\ PacketInv
  BY DEF WalkInv
<1>2. CASE [InstallNext]_installVars /\ UNCHANGED packetVars
  BY <1>1, <1>2, InstallStepStutters
<1>3. CASE PacketNext /\ UNCHANGED installVars /\ ~Sound
  <2>1. cfg' = cfg
    BY <1>3 DEF installVars, serverVars
  <2>2. QED
    BY <1>3, <2>1, AbstractStutter
<1>4. CASE PacketNext /\ UNCHANGED installVars /\ Sound
  <2>1. CASE Kernel
    BY <1>1, <1>4, <2>1, ArriveEnters, RunEndDecides, RunLinkDecides, RunTailcallMoves,
       RunUpcallMoves DEF Kernel, ByTheBook!Next
  <2>2. CASE Misread \/ Receive \/ RunUser
    BY <1>1, <1>4, <2>2, QueueLands, RunUserWalks DEF ByTheBook!Next
  <2>3. CASE CrashUser
    <3>1. Faulty(at) /\ at \in cfg.functions
      BY <1>1, <1>4, <2>3, CrashUserKeeps, InUser DEF CrashUser
    <3>2. QED
      BY <1>4, <3>1, SoundFacts
  <2>4. QED
    BY <1>4, <2>1, <2>2, <2>3 DEF PacketNext, User
<1>5. QED
  BY <1>2, <1>3, <1>4 DEF WalkNext, walkVars

\* A packet that has not arrived is at rx.
LEMMA WalkInitWalks == WalkInit => ByTheBook!Init
<1> SUFFICES ASSUME WalkInit PROVE ByTheBook!Init
  OBVIOUS
<1>1. where = "idle" /\ fate = "none"
  BY DEF WalkInit, PacketInit
<1>2. Onward = "rx"
  BY <1>1 DEF Onward
<1> DEFINE T == Sound /\ where = "queued"
<1>3. T = FALSE
  BY <1>1
<1> HIDE DEF T
<1>4. (IF Sound THEN Onward ELSE "rx") = "rx" /\ T = FALSE /\ (IF Sound THEN fate ELSE "none") = "none"
  BY <1>1, <1>2, <1>3
<1>5. QED
  BY <1>4 DEF ByTheBook!Init, T
-----------------------------------------------------------------------------
\* chainsmith, pulley and a packet keep their inductive invariant.
THEOREM WalkInvariant == WalkSpec => []WalkInv
BY WalkInitInv, WalkNextKeeps, PTL DEF WalkSpec

\* The packet's state keeps its types: in particular it never makes more
\* tailcalls than the kernel allows, and is never at a function that the chain
\* does not have.
THEOREM PacketTypes == WalkSpec => []PacketTypeOK
<1>1. WalkInv => PacketTypeOK
  BY DEF WalkInv, PacketInv
<1>2. QED
  BY <1>1, WalkInvariant, PTL

\* A dataplane thread panics over a packet only if the function it is at has one
\* of four faults; the unwraps that look up the source of an upcall never fail.
THEOREM CrashAlwaysExplained == WalkSpec => []CrashExplained
<1>1. WalkInv => CrashExplained
  BY DEF WalkInv, PacketInv
<1>2. QED
  BY <1>1, WalkInvariant, PTL

\* In the kernel as in userland a packet ends as its last function asked for,
\* unless that function has one of the faults or lets packets pass in userland.
THEOREM FateAlwaysExplained == WalkSpec => []FateExplained
<1>1. WalkInv => FateExplained
  BY DEF WalkInv, PacketInv
<1>2. QED
  BY <1>1, WalkInvariant, PTL

\* The refinement: whatever order things happen in, and wherever its functions
\* run, an installed chain made from a sound file walks every packet as its
\* chain.toml says.
THEOREM WalksByTheBook == WalkSpec => ImplementsChainWalk
<1>1. WalkInit => ByTheBook!Init
  BY WalkInitWalks
<1>2. WalkInv /\ [WalkNext]_walkVars => [ByTheBook!Next]_(ByTheBook!walkVars)
  BY WalkNextWalks
<1>3. QED
  BY <1>1, <1>2, WalkInvariant, PTL DEF WalkSpec, ImplementsChainWalk, ByTheBook!Spec
=============================================================================
