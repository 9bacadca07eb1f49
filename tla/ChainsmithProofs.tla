--------------------------- MODULE ChainsmithProofs ---------------------------
(***************************************************************************)
(* Theorems about Chainsmith, for every chain.toml and every set of        *)
(* architectures.  The inductive invariant says of a build in progress, at *)
(* every stage, how much of the chain follows from the file, and of every  *)
(* message that is served that all of it does (Sealed).                    *)
(***************************************************************************)
EXTENDS Chainsmith, FiniteSetTheorems, TLAPS

\* What make_concrete makes of the targets of one link.
StateOf(to) ==
  IF IsTail(to) THEN TailState ELSE BodyState([j \in 1..Len(to) |-> Resolve(to[j])])

\* Every target of the link is a function or a special name.
AllDefined(to) == IsTail(to) \/ \A j \in 1..Len(to) : Defined(to[j])

\* The state of f comes from one of the links from f, among the first i.
Derived(f, state, i) ==
  \E j \in FromLinks(f) :
    /\ j <= i
    /\ AllDefined(cfg.links[j].to)
    /\ state = StateOf(cfg.links[j].to)

\* The same, or f is a function called rx, whose links are taken for links from
\* the network: it is never given a state.
Settled(f, state, i) == Derived(f, state, i) \/ (f = "rx" /\ state = BodyState(<<>>))

\* The binaries, once the XDP crate (and, with `elf`, the userland) is built.
Payload(f, elf) ==
  [ebpf |-> f \in XdpBins, elf |-> elf,
   symbols |-> {ScreamingSnake(m) : m \in cfg.maps[f]}]

Payloads(elf) == [f \in cfg.functions |-> Payload(f, elf)]

\* A link record of make_concrete differs from Unlinked in state and root only.
LinkOf(f, state, root) ==
  [state |-> state, root |-> root,
   disable_xdp |-> f \in cfg.disable_xdp, map_names |-> cfg.maps[f]]

LinkShape(link) ==
  /\ link = [f \in cfg.functions |-> LinkOf(f, link[f].state, link[f].root)]
  /\ \A f \in cfg.functions : link[f].root \in BOOLEAN

\* g is the only root, and the target of a link from rx.
RootIs(link, g) ==
  /\ \A f \in cfg.functions : link[f].root <=> f = g
  /\ \E j \in FromLinks("rx") : Len(cfg.links[j].to) = 1 /\ cfg.links[j].to[1].name = g

\* The checks of write_xdp_programs, and the size of the tables it generates.
Sized(sl, f) == ~BranchMismatch(f) /\ sl[f] = NextPowerOfTwo(ReturnLen(f))

\* What is known of a message that is served.
Sealed(c) ==
  /\ c.links \in Orders(cfg.functions)
  /\ LinkShape(c.link)
  /\ \E g \in cfg.functions : RootIs(c.link, g)
  /\ \A f \in cfg.functions : Settled(f, c.link[f].state, Len(cfg.links))
  /\ c.nfs = Payloads(TRUE)
  /\ Castable(cfg.functions)
  /\ \A f \in cfg.functions : Sized(c.slots, f)

SlotsInv ==
  /\ phase \in {"analyse", "write_xdp", "write_user", "link"} =>
       slots = [f \in cfg.functions |-> slots[f]]
  /\ phase = "analyse" => todo = cfg.functions
  /\ phase = "write_xdp" => \A f \in cfg.functions \ todo : Sized(slots, f)
  /\ phase \in {"write_user", "link"} => \A f \in cfg.functions : Sized(slots, f)

NfsInv ==
  /\ phase = "write_user" => nfs = Payloads(FALSE)
  /\ phase = "link" => nfs = Payloads(TRUE) /\ Castable(cfg.functions)

\* Whether make_concrete has met a target of rx among the first i links.
RxTarget(i) == \E j \in FromLinks("rx") : j <= i /\ cfg.links[j].to # <<>>

LinkedInv ==
  /\ phase \in {"analyse", "write_xdp", "write_user"} => linked = <<>> /\ k = 0 /\ rxCount = 0
  /\ phase \in {"analyse", "write_xdp", "write_user", "link"} => arch \in Arch
  /\ phase = "link" =>
       /\ LinkShape(linked)
       /\ \A f \in cfg.functions :
            \/ Settled(f, linked[f].state, k)
            \/ linked[f].state = BodyState(<<>>) /\ \A j \in FromLinks(f) : k < j

RxInv ==
  phase = "link" =>
    /\ rxCount \in {0, 1}
    /\ rxCount = 0 => ~RxTarget(k) /\ \A f \in cfg.functions : ~linked[f].root
    /\ rxCount = 1 => RxTarget(k) /\ \E g \in cfg.functions : RootIs(linked, g)

ServedInv == \A a \in DOMAIN served : Sealed(served[a])

ServerInv ==
  /\ ServerTypeOK
  /\ SlotsInv
  /\ NfsInv
  /\ LinkedInv
  /\ RxInv
  /\ RefusedForCause
  /\ ServedInv
-----------------------------------------------------------------------------
(***************************************************************************)
(* The file.                                                               *)
(***************************************************************************)

\* Sequences have a length, and elements of their type.
LEMMA SeqFacts ==
  ASSUME NEW R, NEW s \in Seq(R)
  PROVE  /\ Len(s) \in Nat
         /\ \A j \in 1..Len(s) : s[j] \in R
         /\ s = <<>> <=> Len(s) = 0
OBVIOUS

\* chain.toml has been parsed: a list of links, each with a list of targets.
LEMMA FileFacts ==
  ASSUME cfg \in Config
  PROVE  /\ Len(cfg.links) \in Nat
         /\ \A j \in 1..Len(cfg.links) :
              /\ Len(cfg.links[j].to) \in Nat
              /\ cfg.links[j].to = <<>> <=> Len(cfg.links[j].to) = 0
              /\ \A i \in 1..Len(cfg.links[j].to) : cfg.links[j].to[i].up \in BOOLEAN
         /\ NoNf \notin cfg.functions
         /\ cfg.disable_xdp \subseteq cfg.functions
         /\ IsFiniteSet(cfg.functions)
<1> DEFINE Dest == [up : BOOLEAN, name : STRING]
           LinkSet == [from : STRING, to : Seq(Dest)]
<1>1. cfg.links \in Seq(LinkSet)
  BY ChainsmithAssumption
<1>2. Len(cfg.links) \in Nat /\ \A j \in 1..Len(cfg.links) : cfg.links[j] \in LinkSet
  <2> HIDE DEF LinkSet
  <2> QED
    BY <1>1, SeqFacts
<1>3. \A l \in LinkSet : l.to \in Seq(Dest)
  <2> HIDE DEF Dest
  <2> QED
    OBVIOUS
<1>4. ASSUME NEW j \in 1..Len(cfg.links)
      PROVE  /\ Len(cfg.links[j].to) \in Nat
             /\ cfg.links[j].to = <<>> <=> Len(cfg.links[j].to) = 0
             /\ \A i \in 1..Len(cfg.links[j].to) : cfg.links[j].to[i].up \in BOOLEAN
  <2>1. cfg.links[j].to \in Seq(Dest)
    BY <1>2, <1>3
  <2>2. /\ Len(cfg.links[j].to) \in Nat
        /\ cfg.links[j].to = <<>> <=> Len(cfg.links[j].to) = 0
        /\ \A i \in 1..Len(cfg.links[j].to) : cfg.links[j].to[i] \in Dest
    <3> HIDE DEF Dest
    <3> QED
      BY <2>1, SeqFacts
  <2>3. \A d \in Dest : d.up \in BOOLEAN
    OBVIOUS
  <2>4. QED
    BY <2>2, <2>3
<1>5. QED
  BY <1>2, <1>4, ChainsmithAssumption

\* The tables that are generated are large enough.
LEMMA PowerFacts ==
  ASSUME NEW i \in Nat, i <= LargestEnum
  PROVE  /\ NextPowerOfTwo(i) \in Nat
         /\ i <= NextPowerOfTwo(i)
<1>1. \E p \in PowerOfTwo : i <= p /\ \A q \in PowerOfTwo : i <= q => p <= q
  BY SMTT(60) DEF PowerOfTwo, LargestEnum
<1>2. NextPowerOfTwo(i) \in PowerOfTwo /\ i <= NextPowerOfTwo(i)
  BY <1>1 DEF NextPowerOfTwo
<1>3. PowerOfTwo \subseteq Nat
  BY DEF PowerOfTwo, LargestEnum
<1>4. QED
  BY <1>2, <1>3

\* The fields of a link.
LEMMA LinkFields ==
  ASSUME NEW f, NEW state, NEW root
  PROVE  /\ LinkOf(f, state, root).state = state
         /\ LinkOf(f, state, root).root = root
         /\ LinkOf(f, state, root).map_names = cfg.maps[f]
         /\ \A x : [LinkOf(f, state, root) EXCEPT !.root = x] = LinkOf(f, state, x)
         /\ \A x : [LinkOf(f, state, root) EXCEPT !.state = x] = LinkOf(f, x, root)
<1>1. LinkOf(f, state, root).state = state
  BY DEF LinkOf
<1>2. LinkOf(f, state, root).root = root
  BY DEF LinkOf
<1>3. LinkOf(f, state, root).map_names = cfg.maps[f]
  BY DEF LinkOf
<1>4. ASSUME NEW x PROVE [LinkOf(f, state, root) EXCEPT !.root = x] = LinkOf(f, state, x)
  BY DEF LinkOf
<1>5. ASSUME NEW x PROVE [LinkOf(f, state, root) EXCEPT !.state = x] = LinkOf(f, x, root)
  BY DEF LinkOf
<1>6. QED
  BY <1>1, <1>2, <1>3, <1>4, <1>5

\* And of a payload, whose `ebpf` is a truth value.
LEMMA PayloadFields ==
  ASSUME NEW f, NEW elf
  PROVE  /\ Payload(f, elf).ebpf = (f \in XdpBins)
         /\ Payload(f, elf).elf = elf
         /\ Payload(f, elf).symbols = {ScreamingSnake(m) : m \in cfg.maps[f]}
         /\ \A x : [Payload(f, elf) EXCEPT !.elf = x] = Payload(f, x)
<1>1. Payload(f, elf).ebpf = (f \in XdpBins)
  BY DEF Payload
<1>2. Payload(f, elf).elf = elf
  BY DEF Payload
<1>3. Payload(f, elf).symbols = {ScreamingSnake(m) : m \in cfg.maps[f]}
  BY DEF Payload
<1>4. ASSUME NEW x PROVE [Payload(f, elf) EXCEPT !.elf = x] = Payload(f, x)
  <2>1. PICK e : e = (f \in XdpBins)
    OBVIOUS
  <2>2. \A y : Payload(f, y) = [ebpf |-> e, elf |-> y,
                                symbols |-> {ScreamingSnake(m) : m \in cfg.maps[f]}]
    BY <2>1 DEF Payload
  <2>3. QED
    BY <2>2
<1>5. QED
  BY <1>1, <1>2, <1>3, <1>4

\* What a file says does not change while it is compiled.
LEMMA FileKept ==
  ASSUME cfg' = cfg
  PROVE  /\ \A f : FromLinks(f)' = FromLinks(f)
         /\ \A d : Resolve(d)' = Resolve(d) /\ Defined(d)' = Defined(d)
         /\ \A f : ReturnLen(f)' = ReturnLen(f)
         /\ \A f : BranchMismatch(f)' <=> BranchMismatch(f)
         /\ \A S : Castable(S)' <=> Castable(S)
         /\ XdpBins' = XdpBins
         /\ \A i : RxTarget(i)' <=> RxTarget(i)
         /\ SoundLinks' <=> SoundLinks
<1>1. \A f : FromLinks(f)' = FromLinks(f)
  BY DEF FromLinks
<1>2. \A d : Resolve(d)' = Resolve(d) /\ Defined(d)' = Defined(d)
  BY DEF Resolve, Defined
<1>3. \A f : ReturnLen(f)' = ReturnLen(f)
  BY DEF ReturnLen
<1>4. \A f : BranchMismatch(f)' <=> BranchMismatch(f)
  <2>1. \A f : FirstLink(f)' = FirstLink(f)
    BY <1>1 DEF FirstLink
  <2>2. QED
    BY <1>1, <2>1 DEF BranchMismatch
<1>5. \A S : Castable(S)' <=> Castable(S)
  BY DEF Castable
<1>6. XdpBins' = XdpBins
  BY DEF XdpBins
<1>7. \A i : RxTarget(i)' <=> RxTarget(i)
  BY <1>1 DEF RxTarget
<1>8. SoundLinks' <=> SoundLinks
  BY DEF SoundLinks
<1>9. QED
  BY <1>1, <1>2, <1>3, <1>4, <1>5, <1>6, <1>7, <1>8

\* Nor does what make_concrete makes of a link,
LEMMA SettledKept ==
  ASSUME cfg' = cfg, NEW f, NEW state, NEW i
  PROVE  Settled(f, state, i)' <=> Settled(f, state, i)
<1>1. ASSUME NEW to
      PROVE  StateOf(to)' = StateOf(to) /\ (AllDefined(to)' <=> AllDefined(to))
  <2>1. [j \in 1..Len(to) |-> Resolve(to[j])]' = [j \in 1..Len(to) |-> Resolve(to[j])]
    BY FileKept
  <2>2. QED
    BY <2>1, FileKept DEF StateOf, AllDefined
<1>2. QED
  BY <1>1, FileKept DEF Settled, Derived

\* nor what is known of a message.
LEMMA SealedKept ==
  ASSUME cfg' = cfg, NEW c
  PROVE  /\ Sealed(c)' <=> Sealed(c)
         /\ LinkShape(c)' <=> LinkShape(c)
         /\ \A g : RootIs(c, g)' <=> RootIs(c, g)
         /\ \A f : Sized(c, f)' <=> Sized(c, f)
         /\ \A elf : Payloads(elf)' = Payloads(elf)
<1>1. ASSUME NEW l PROVE LinkShape(l)' <=> LinkShape(l)
  BY DEF LinkShape, LinkOf
<1>2. ASSUME NEW l, NEW g PROVE RootIs(l, g)' <=> RootIs(l, g)
  BY FileKept DEF RootIs
<1>3. ASSUME NEW sl, NEW f PROVE Sized(sl, f)' <=> Sized(sl, f)
  BY FileKept DEF Sized
<1>4. ASSUME NEW elf PROVE Payloads(elf)' = Payloads(elf)
  BY FileKept DEF Payloads, Payload
<1>5. Sealed(c)' <=> Sealed(c)
  <2>1. \A f \in cfg.functions :
          Settled(f, c.link[f].state, Len(cfg.links))' <=> Settled(f, c.link[f].state, Len(cfg.links))
    BY SettledKept
  <2>2. QED
    BY <1>1, <1>2, <1>3, <1>4, <2>1, FileKept DEF Sealed
<1>6. QED
  BY <1>1, <1>2, <1>3, <1>4, <1>5
-----------------------------------------------------------------------------
(***************************************************************************)
(* Every step of compile_chain keeps the invariant.                        *)
(***************************************************************************)

\* What is served stays as it was sealed.
LEMMA ServedKept ==
  ASSUME ServedInv, cfg' = cfg, served' = served
  PROVE  ServedInv'
BY SealedKept DEF ServedInv

\* The tables are sized before the XDP crate is built, and not touched again.
LEMMA SlotsKept ==
  ASSUME SlotsInv, cfg' = cfg, slots' = slots,
         \/ phase \in {"write_user", "link"}
         \/ phase = "write_xdp" /\ todo = {},
         phase' \in {"write_user", "link"}
  PROVE  SlotsInv'
<1>1. slots' = [g \in cfg'.functions |-> slots'[g]]
  BY DEF SlotsInv
<1>2. \A g \in cfg.functions : Sized(slots, g)
  BY DEF SlotsInv
<1>3. \A g \in cfg.functions : Sized(slots, g)'
  BY <1>2, FileKept DEF Sized
<1>4. QED
  BY <1>1, <1>3 DEF SlotsInv

\* No build is in progress, or it has failed: only the types are left to keep.
LEMMA IdleKeeps ==
  ASSUME ServerTypeOK', ServedInv, cfg' = cfg, served' = served,
         phase' \in {"next", "serve"} \union Failed,
         phase' \in Failed /\ linked' # <<>> => ~SoundLinks
  PROVE  ServerInv'
<1>1. ServedInv'
  BY ServedKept
<1>2. RefusedForCause'
  BY FileKept DEF RefusedForCause
<1>3. SlotsInv' /\ NfsInv' /\ LinkedInv' /\ RxInv'
  BY DEF SlotsInv, NfsInv, LinkedInv, RxInv, Failed
<1>4. QED
  BY <1>1, <1>2, <1>3 DEF ServerInv

\* An error or a panic ends the build.
LEMMA FailKeeps ==
  ASSUME ServerInv, NEW kind \in Failed, Fail(kind), linked # <<>> => ~SoundLinks
  PROVE  ServerInv'
<1>1. ServerTypeOK'
  BY DEF ServerInv, ServerTypeOK, Fail, unit, Phases
<1>2. ServedInv
  BY DEF ServerInv
<1>3. cfg' = cfg /\ served' = served /\ linked' = linked /\ phase' = kind
  BY DEF Fail, unit
<1>4. QED
  BY <1>1, <1>2, <1>3, IdleKeeps

\* Before make_concrete nothing is linked.
LEMMA EarlyFailKeeps ==
  ASSUME ServerInv, NEW kind \in Failed, Fail(kind),
         phase \in {"analyse", "write_xdp", "write_user"}
  PROVE  ServerInv'
<1>1. linked = <<>>
  BY DEF ServerInv, LinkedInv
<1>2. QED
  BY <1>1, FailKeeps

\* The next architecture of main's loop.
LEMMA NextArchKeeps ==
  ASSUME ServerInv, NEW a \in Arch, NextArch(a)
  PROVE  ServerInv'
<1>1. ServerTypeOK'
  <2>1. Len(cfg.links) \in Nat
    BY FileFacts DEF ServerInv, ServerTypeOK
  <2>2. QED
    BY <2>1 DEF ServerInv, ServerTypeOK, NextArch, Phases
<1>2. ServedInv'
  BY ServedKept DEF ServerInv, NextArch
<1>3. SlotsInv' /\ NfsInv' /\ LinkedInv' /\ RxInv' /\ RefusedForCause'
  <2>1. phase' = "analyse" /\ linked' = <<>> /\ k' = 0 /\ rxCount' = 0 /\ arch' \in Arch
    BY DEF NextArch
  <2>2. slots' = [f \in cfg'.functions |-> slots'[f]] /\ todo' = cfg'.functions
    BY DEF NextArch
  <2>3. QED
    BY <2>1, <2>2 DEF SlotsInv, NfsInv, LinkedInv, RxInv, RefusedForCause, Failed
<1>4. QED
  BY <1>1, <1>2, <1>3 DEF ServerInv

\* get_nf_return_types
LEMMA AnalyseKeeps ==
  ASSUME ServerInv, Analyse
  PROVE  ServerInv'
<1>1. CASE cfg.unreadable = {}
  <2>1. /\ phase = "analyse" /\ phase' = "write_xdp"
        /\ UNCHANGED <<cfg, arch, waiting, todo, slots, nfs, k, linked, rxCount, served>>
    BY <1>1 DEF Analyse, unit
  <2>2. ServerTypeOK'
    BY <2>1 DEF ServerInv, ServerTypeOK, Phases
  <2>3. ServedInv'
    BY <2>1, ServedKept DEF ServerInv
  <2>4. NfsInv' /\ LinkedInv' /\ RxInv' /\ RefusedForCause'
    BY <2>1 DEF ServerInv, NfsInv, LinkedInv, RxInv, RefusedForCause, Failed
  <2>5. SlotsInv'
    <3>1. slots' = [f \in cfg'.functions |-> slots'[f]]
      BY <2>1 DEF ServerInv, SlotsInv
    <3>2. todo' = cfg'.functions
      BY <2>1 DEF ServerInv, SlotsInv
    <3>3. QED
      BY <2>1, <3>1, <3>2 DEF SlotsInv
  <2>6. QED
    BY <2>2, <2>3, <2>4, <2>5 DEF ServerInv
<1>2. CASE cfg.unreadable # {}
  <2>1. Fail("error") /\ phase = "analyse"
    BY <1>2 DEF Analyse
  <2>2. QED
    BY <2>1, EarlyFailKeeps DEF Failed
<1>3. QED
  BY <1>1, <1>2

\* write_xdp_programs, for one function.
LEMMA WriteXdpKeeps ==
  ASSUME ServerInv, NEW f \in cfg.functions, WriteXdp(f)
  PROVE  ServerInv'
<1>1. CASE MapsPanic(f)
  <2>1. Fail("panic") /\ phase = "write_xdp"
    BY <1>1 DEF WriteXdp
  <2>2. QED
    BY <2>1, EarlyFailKeeps DEF Failed
<1>2. CASE ~MapsPanic(f) /\ BranchMismatch(f)
  <2>1. Fail("error") /\ phase = "write_xdp"
    BY <1>2 DEF WriteXdp
  <2>2. QED
    BY <2>1, EarlyFailKeeps DEF Failed
<1>3. CASE ~MapsPanic(f) /\ ~BranchMismatch(f)
  <2>1. /\ phase = "write_xdp" /\ phase' = phase
        /\ todo' = todo \ {f}
        /\ slots' = [slots EXCEPT ![f] = NextPowerOfTwo(ReturnLen(f))]
        /\ UNCHANGED <<cfg, arch, waiting, nfs, k, linked, rxCount, served>>
    BY <1>3 DEF WriteXdp
  <2>2. ServerTypeOK'
    BY <2>1 DEF ServerInv, ServerTypeOK
  <2>3. ServedInv'
    BY <2>1, ServedKept DEF ServerInv
  <2>4. NfsInv' /\ LinkedInv' /\ RxInv' /\ RefusedForCause'
    BY <2>1 DEF ServerInv, NfsInv, LinkedInv, RxInv, RefusedForCause, Failed
  <2>5. SlotsInv'
    <3>1. slots = [g \in cfg.functions |-> slots[g]]
      BY <2>1 DEF ServerInv, SlotsInv
    <3>2. /\ slots' = [g \in cfg.functions |-> slots'[g]]
          /\ slots'[f] = NextPowerOfTwo(ReturnLen(f))
          /\ \A g \in cfg.functions \ {f} : slots'[g] = slots[g]
      BY <2>1, <3>1
    <3>3. \A g \in cfg.functions \ todo' : Sized(slots', g)
      BY <1>3, <2>1, <3>2 DEF ServerInv, SlotsInv, Sized
    <3>4. \A g \in cfg.functions \ todo' : Sized(slots, g)'
      BY <2>1, <3>3, FileKept DEF Sized
    <3>5. QED
      BY <2>1, <3>2, <3>4 DEF SlotsInv
  <2>6. QED
    BY <2>2, <2>3, <2>4, <2>5 DEF ServerInv
<1>4. QED
  BY <1>1, <1>2, <1>3

\* compile_xdp_binaries
LEMMA CompileXdpKeeps ==
  ASSUME ServerInv, CompileXdp
  PROVE  ServerInv'
<1>1. CASE Fail("error")
  BY <1>1, EarlyFailKeeps DEF CompileXdp, Failed
<1>2. CASE ~Fail("error")
  <2>1. /\ phase = "write_xdp" /\ phase' = "write_user"
        /\ todo = {} /\ todo' = cfg.functions
        /\ nfs' = Payloads(FALSE)
        /\ UNCHANGED <<cfg, arch, waiting, slots, k, linked, rxCount, served>>
    BY <1>2 DEF CompileXdp, Payloads, Payload
  <2>2. ServerTypeOK'
    BY <2>1 DEF ServerInv, ServerTypeOK, Phases
  <2>3. ServedInv'
    BY <2>1, ServedKept DEF ServerInv
  <2>4. LinkedInv' /\ RxInv' /\ RefusedForCause'
    BY <2>1 DEF ServerInv, LinkedInv, RxInv, RefusedForCause, Failed
  <2>5. NfsInv'
    BY <2>1, SealedKept DEF NfsInv
  <2>6. SlotsInv'
    BY <2>1, SlotsKept DEF ServerInv
  <2>7. QED
    BY <2>2, <2>3, <2>4, <2>5, <2>6 DEF ServerInv
<1>3. QED
  BY <1>1, <1>2

\* write_userland_programs, for one function.
LEMMA WriteUserKeeps ==
  ASSUME ServerInv, NEW f \in cfg.functions, WriteUser(f)
  PROVE  ServerInv'
<1>1. CASE MapsPanic(f)
  <2>1. Fail("panic") /\ phase = "write_user"
    BY <1>1 DEF WriteUser
  <2>2. QED
    BY <2>1, EarlyFailKeeps DEF Failed
<1>2. CASE ~MapsPanic(f)
  <2>1. /\ phase = "write_user" /\ phase' = phase
        /\ todo' = todo \ {f}
        /\ UNCHANGED <<cfg, arch, waiting, slots, nfs, k, linked, rxCount, served>>
    BY <1>2 DEF WriteUser
  <2>2. ServerTypeOK'
    BY <2>1 DEF ServerInv, ServerTypeOK
  <2>3. ServedInv'
    BY <2>1, ServedKept DEF ServerInv
  <2>4. LinkedInv' /\ RxInv' /\ RefusedForCause'
    BY <2>1 DEF ServerInv, LinkedInv, RxInv, RefusedForCause, Failed
  <2>5. NfsInv'
    BY <2>1, SealedKept DEF ServerInv, NfsInv
  <2>6. SlotsInv'
    BY <2>1, SlotsKept DEF ServerInv
  <2>7. QED
    BY <2>2, <2>3, <2>4, <2>5, <2>6 DEF ServerInv
<1>3. QED
  BY <1>1, <1>2

\* compile_userland_binaries, after which make_concrete starts.
LEMMA CompileUserKeeps ==
  ASSUME ServerInv, CompileUser
  PROVE  ServerInv'
<1>1. CASE \E kind \in Failed : Fail(kind)
  BY <1>1, EarlyFailKeeps DEF CompileUser
<1>2. CASE ~\E kind \in Failed : Fail(kind)
  <2>1. /\ phase = "write_user" /\ phase' = "link"
        /\ Castable(cfg.functions)
        /\ nfs' = [f \in cfg.functions |-> [nfs[f] EXCEPT !.elf = TRUE]]
        /\ linked' = [f \in cfg.functions |-> Unlinked(f)]
        /\ UNCHANGED <<cfg, arch, waiting, todo, slots, k, rxCount, served>>
    BY <1>2 DEF CompileUser, UserMembers, Failed
  <2>2. ServerTypeOK'
    BY <2>1 DEF ServerInv, ServerTypeOK, Phases
  <2>3. ServedInv'
    BY <2>1, ServedKept DEF ServerInv
  <2>4. SlotsInv'
    BY <2>1, SlotsKept DEF ServerInv
  <2>5. NfsInv'
    <3>1. nfs = Payloads(FALSE)
      BY <2>1 DEF ServerInv, NfsInv
    <3>2. \A f \in cfg.functions : [nfs[f] EXCEPT !.elf = TRUE] = Payload(f, TRUE)
      BY <3>1, PayloadFields DEF Payloads
    <3>3. nfs' = Payloads(TRUE)
      BY <2>1, <3>2 DEF Payloads
    <3>4. QED
      BY <2>1, <3>3, SealedKept, FileKept DEF NfsInv
  <2>6. /\ linked' = [f \in cfg.functions |-> LinkOf(f, BodyState(<<>>), FALSE)]
        /\ \A f \in cfg.functions : linked'[f].state = BodyState(<<>>) /\ linked'[f].root = FALSE
    <3>1. linked' = [f \in cfg.functions |-> LinkOf(f, BodyState(<<>>), FALSE)]
      BY <2>1 DEF Unlinked, LinkOf
    <3>2. ASSUME NEW f
          PROVE  /\ LinkOf(f, BodyState(<<>>), FALSE).state = BodyState(<<>>)
                 /\ LinkOf(f, BodyState(<<>>), FALSE).root = FALSE
      BY DEF LinkOf
    <3>3. QED
      BY <3>1, <3>2
  <2>7. k = 0 /\ rxCount = 0
    BY <2>1 DEF ServerInv, LinkedInv
  <2>8. LinkedInv'
    <3>1. LinkShape(linked')
      BY <2>1, <2>6 DEF LinkShape
    <3>2. \A f \in cfg.functions : \A j \in FromLinks(f) : k < j
      BY <2>7, FileFacts DEF ServerInv, ServerTypeOK, FromLinks
    <3>3. \A f \in cfg.functions : linked'[f].state = BodyState(<<>>)
      BY <2>6
    <3>4. LinkShape(linked)'
      BY <2>1, <3>1, SealedKept
    <3>5. \A f \in cfg'.functions :
            linked'[f].state = BodyState(<<>>) /\ \A j \in FromLinks(f)' : k' < j
      BY <2>1, <3>2, <3>3, FileKept
    <3>6. QED
      BY <2>1, <3>4, <3>5 DEF ServerInv, LinkedInv
  <2>9. RxInv'
    <3>1. ~RxTarget(0)
      BY FileFacts DEF ServerInv, ServerTypeOK, RxTarget, FromLinks
    <3>2. ~RxTarget(k)'
      BY <2>1, <2>7, <3>1 DEF RxTarget, FromLinks
    <3>3. \A f \in cfg'.functions : ~linked'[f].root
      BY <2>1, <2>6
    <3>4. rxCount' = 0
      BY <2>1, <2>7
    <3>5. QED
      BY <3>2, <3>3, <3>4 DEF RxInv
  <2>10. RefusedForCause'
    BY <2>1 DEF RefusedForCause, Failed
  <2>11. QED
    BY <2>2, <2>3, <2>4, <2>5, <2>8, <2>9, <2>10 DEF ServerInv
<1>3. QED
  BY <1>1, <1>2

\* Every architecture is built.
LEMMA ServeKeeps ==
  ASSUME ServerInv, Serve
  PROVE  ServerInv'
<1>1. /\ phase' = "serve"
      /\ UNCHANGED <<cfg, arch, waiting, todo, slots, nfs, k, linked, rxCount, served>>
  BY DEF Serve, unit
<1>2. ServerTypeOK'
  BY <1>1 DEF ServerInv, ServerTypeOK, Phases
<1>3. QED
  BY <1>1, <1>2, IdleKeeps DEF ServerInv, Failed

\* into_single_message: a chain whose links are all processed is sealed.
LEMMA FinishKeeps ==
  ASSUME ServerInv, Finish
  PROVE  ServerInv'
<1>0. phase = "link" /\ k = Len(cfg.links)
  BY DEF Finish
<1>1. CASE rxCount = 0
  <2>1. Fail("error")
    BY <1>1 DEF Finish
  <2>2. ~RxTarget(Len(cfg.links))
    BY <1>0, <1>1 DEF ServerInv, RxInv
  <2>3. ~SoundLinks
    BY <2>2, FileFacts DEF ServerInv, ServerTypeOK, SoundLinks, RxTarget, FromLinks
  <2>4. QED
    BY <2>1, <2>3, FailKeeps DEF Failed
<1>2. CASE rxCount # 0
  <2>1. PICK order \in Orders(cfg.functions) :
          /\ served' = [a \in DOMAIN served \union {arch} |->
                          IF a = arch THEN Message(order) ELSE served[a]]
          /\ phase' = "next"
          /\ UNCHANGED <<cfg, arch, waiting, todo, slots, nfs, k, linked, rxCount>>
    BY <1>2 DEF Finish, unit
  <2>2. Sealed(Message(order))
    <3>1. LinkShape(linked) /\ \E g \in cfg.functions : RootIs(linked, g)
      BY <1>0, <1>2 DEF ServerInv, LinkedInv, RxInv
    <3>2. \A f \in cfg.functions : Sized(slots, f)
      BY <1>0 DEF ServerInv, SlotsInv
    <3>3. nfs = Payloads(TRUE) /\ Castable(cfg.functions)
      BY <1>0 DEF ServerInv, NfsInv
    <3>4. ASSUME NEW f \in cfg.functions
          PROVE  Settled(f, linked[f].state, Len(cfg.links))
      <4>1. PICK j \in FromLinks(f) : TRUE
        BY <3>2 DEF Sized, BranchMismatch
      <4>2. ~(k < j)
        BY <1>0, FileFacts DEF ServerInv, ServerTypeOK, FromLinks
      <4>3. QED
        BY <1>0, <4>2 DEF ServerInv, LinkedInv
    <3>5. QED
      BY <3>1, <3>2, <3>3, <3>4 DEF Sealed, Message
  <2>3. ASSUME NEW a \in DOMAIN served'
        PROVE  Sealed(served'[a])
    BY <2>1, <2>2 DEF ServerInv, ServedInv
  <2>4. ServedInv'
    BY <2>1, <2>3, SealedKept DEF ServedInv
  <2>5. ServerTypeOK'
    <3>1. arch \in Arch
      BY <1>0 DEF ServerInv, LinkedInv
    <3>2. QED
      BY <2>1, <3>1 DEF ServerInv, ServerTypeOK, Phases
  <2>6. SlotsInv' /\ NfsInv' /\ LinkedInv' /\ RxInv' /\ RefusedForCause'
    BY <2>1 DEF SlotsInv, NfsInv, LinkedInv, RxInv, RefusedForCause, Failed
  <2>7. QED
    BY <2>4, <2>5, <2>6 DEF ServerInv
<1>3. QED
  BY <1>1, <1>2

\* A state that is derived stays so when more links have been processed.
LEMMA SettledGrows ==
  ASSUME cfg \in Config, NEW f, NEW state, NEW i \in Nat
  PROVE  /\ Derived(f, state, i) => Derived(f, state, i + 1)
         /\ Settled(f, state, i) => Settled(f, state, i + 1)
<1>1. Derived(f, state, i) => Derived(f, state, i + 1)
  BY FileFacts DEF Derived, FromLinks
<1>2. QED
  BY <1>1 DEF Settled

\* CountRx(i), by what it does to the state.
LEMMA CountFacts ==
  ASSUME ServerInv, phase = "link", k < Len(cfg.links), NEW i \in Nat, CountRx(i)
  PROVE  /\ k \in Nat /\ k' = k + 1 /\ k + 1 \in 1..Len(cfg.links)
         /\ rxCount \in {0, 1} /\ rxCount' = rxCount + i
         /\ UNCHANGED <<cfg, arch, waiting, todo, slots, nfs, served>>
         /\ rxCount + i > 1 => phase' = "error"
         /\ ~(rxCount + i > 1) => phase' = "link"
         /\ ServerTypeOK'
<1>1. cfg \in Config /\ Len(cfg.links) \in Nat /\ k \in Nat /\ rxCount \in {0, 1}
  BY FileFacts DEF ServerInv, ServerTypeOK, RxInv
<1>2. /\ k' = k + 1 /\ k + 1 \in 1..Len(cfg.links)
      /\ rxCount' = rxCount + i
      /\ UNCHANGED <<cfg, arch, waiting, todo, slots, nfs, served>>
      /\ rxCount + i > 1 => phase' = "error"
      /\ ~(rxCount + i > 1) => phase' = "link"
  BY <1>1 DEF CountRx
<1>3. ServerTypeOK'
  BY <1>1, <1>2 DEF ServerInv, ServerTypeOK, Phases, Failed
<1>4. QED
  BY <1>1, <1>2, <1>3

\* A link from rx makes its only target the root, or there are too many.
LEMMA LinkRxKeeps ==
  ASSUME ServerInv, LinkRx
  PROVE  ServerInv'
<1> DEFINE to == cfg.links[k + 1].to
           targets == {to[j].name : j \in 1..Len(to)}
           refused == \E j \in 1..Len(to) : to[j].up \/ to[j].name \notin cfg.functions
<1>1. /\ phase = "link" /\ k < Len(cfg.links)
      /\ cfg.links[k + 1].from = "rx"
  BY DEF LinkRx
<1>2. cfg \in Config /\ k \in Nat /\ Len(cfg.links) \in Nat /\ k + 1 \in 1..Len(cfg.links)
  BY <1>1, FileFacts DEF ServerInv, ServerTypeOK
<1>3. Len(to) \in Nat /\ (to = <<>> <=> Len(to) = 0)
  BY <1>2, FileFacts
<1>4. k + 1 \in FromLinks("rx")
  BY <1>1, <1>2 DEF FromLinks
<1>5. CASE refused
  <2>1. Fail("error")
    BY <1>5 DEF LinkRx
  <2>2. ~SoundLinks
    BY <1>1, <1>2, <1>3, <1>5 DEF SoundLinks
  <2>3. QED
    BY <2>1, <2>2, FailKeeps DEF Failed
<1>6. CASE ~refused
  <2>1. /\ linked' = [f \in cfg.functions |->
                        [linked[f] EXCEPT !.root = linked[f].root \/ f \in targets]]
        /\ CountRx(Len(to))
    BY <1>6 DEF LinkRx
  <2>2. /\ k' = k + 1 /\ rxCount \in {0, 1} /\ rxCount' = rxCount + Len(to)
        /\ UNCHANGED <<cfg, arch, waiting, todo, slots, nfs, served>>
        /\ rxCount + Len(to) > 1 => phase' = "error"
        /\ ~(rxCount + Len(to) > 1) => phase' = "link"
        /\ ServerTypeOK'
    <3> HIDE DEF to
    <3> QED
      BY <1>1, <1>3, <2>1, CountFacts
  <2>3. CASE rxCount + Len(to) > 1
    <3>1. ~SoundLinks
      <4>1. Len(to) > 1 \/ (Len(to) = 1 /\ rxCount = 1)
        <5>1. \A r \in {0, 1}, l \in Nat : r + l > 1 => l > 1 \/ (l = 1 /\ r = 1)
          OBVIOUS
        <5>2. QED
          BY <1>3, <2>2, <2>3, <5>1
      <4>2. CASE Len(to) > 1
        <5>1. SUFFICES ASSUME SoundLinks PROVE FALSE
          OBVIOUS
        <5>2. PICK r \in 1..Len(cfg.links) :
                Len(cfg.links[r].to) = 1 /\ (k + 1 # r => to = <<>>)
          BY <1>1, <1>2, <5>1 DEF SoundLinks
        <5>3. Len(to) = 1 \/ Len(to) = 0
          BY <1>3, <5>2
        <5>4. \A l \in Nat : l > 1 => ~(l = 1 \/ l = 0)
          OBVIOUS
        <5>5. QED
          BY <1>3, <4>2, <5>3, <5>4
      <4>3. CASE Len(to) = 1 /\ rxCount = 1
        <5>1. PICK j \in FromLinks("rx") : j <= k /\ cfg.links[j].to # <<>>
          BY <1>1, <4>3 DEF ServerInv, RxInv, RxTarget
        <5>2. j # k + 1 /\ to # <<>> /\ j \in 1..Len(cfg.links) /\ cfg.links[j].from = "rx"
          BY <1>2, <1>3, <4>3, <5>1 DEF FromLinks
        <5>3. QED
          BY <1>1, <1>2, <5>1, <5>2 DEF SoundLinks
      <4>4. QED
        BY <4>1, <4>2, <4>3
    <3>2. QED
      BY <2>2, <2>3, <3>1, IdleKeeps DEF ServerInv, Failed
  <2>4. CASE ~(rxCount + Len(to) > 1)
    <3>0. phase' = "link"
      BY <2>2, <2>4
    <3>1. LinkShape(linked)
      BY <1>1 DEF ServerInv, LinkedInv
    <3>2. ASSUME NEW f \in cfg.functions
          PROVE  /\ linked'[f].state = linked[f].state
                 /\ linked'[f].root <=> linked[f].root \/ f \in targets
                 /\ linked'[f].root \in BOOLEAN
                 /\ linked'[f] = LinkOf(f, linked'[f].state, linked'[f].root)
      <4>1. PICK r : r = (linked[f].root \/ f \in targets)
        OBVIOUS
      <4>2. linked'[f] = [linked[f] EXCEPT !.root = r]
        BY <2>1, <4>1
      <4>3. linked[f] = LinkOf(f, linked[f].state, linked[f].root)
        BY <3>1 DEF LinkShape
      <4>4. linked'[f] = LinkOf(f, linked[f].state, r)
        BY <4>2, <4>3, LinkFields
      <4>5. linked'[f].state = linked[f].state /\ linked'[f].root = r
        BY <4>4, LinkFields
      <4>6. QED
        BY <4>1, <4>4, <4>5
    <3>3. LinkShape(linked')
      <4>1. linked' = [f \in cfg.functions |-> linked'[f]]
        BY <2>1
      <4>2. QED
        BY <3>2, <4>1 DEF LinkShape
    <3>4. LinkedInv'
      <4>1. ASSUME NEW f \in cfg.functions
            PROVE  \/ Settled(f, linked'[f].state, k + 1)
                   \/ linked'[f].state = BodyState(<<>>) /\ \A j \in FromLinks(f) : k + 1 < j
        <5>1. f = "rx" \/ \A j \in FromLinks(f) : j # k + 1 /\ j \in Nat
          BY <1>1, <1>2, FileFacts DEF FromLinks
        <5>2. CASE Settled(f, linked[f].state, k)
          BY <1>2, <3>2, <5>2, SettledGrows
        <5>3. CASE linked[f].state = BodyState(<<>>) /\ \A j \in FromLinks(f) : k < j
          BY <1>2, <3>2, <5>1, <5>3 DEF Settled
        <5>4. QED
          BY <1>1, <5>2, <5>3 DEF ServerInv, LinkedInv
      <4>2. LinkShape(linked)'
        BY <2>2, <3>3, SealedKept
      <4>3. ASSUME NEW f \in cfg'.functions
            PROVE  \/ Settled(f, linked[f].state, k)'
                   \/ linked'[f].state = BodyState(<<>>) /\ \A j \in FromLinks(f)' : k' < j
        <5>1. Settled(f, linked[f].state, k)' <=> Settled(f, linked'[f].state, k + 1)
          BY <2>2, SettledKept
        <5>2. QED
          BY <2>2, <4>1, <5>1, FileKept
      <4>4. arch' \in Arch
        BY <1>1, <2>2 DEF ServerInv, LinkedInv
      <4>5. QED
        BY <3>0, <4>2, <4>3, <4>4 DEF LinkedInv
    <3>5. RxInv'
      <4>1. CASE Len(to) = 0
        <5>1. targets = {} /\ rxCount' = rxCount
          BY <1>3, <2>2, <4>1
        <5>2. RxTarget(k)' <=> RxTarget(k)
          <6>1. RxTarget(k + 1) <=> RxTarget(k)
            <7>1. \A j \in FromLinks("rx") : j \in Nat /\ (j = k + 1 => cfg.links[j].to = <<>>)
              BY <1>2, <1>3, <4>1 DEF FromLinks
            <7>2. \A j \in Nat : j <= k + 1 <=> j <= k \/ j = k + 1
              BY <1>2
            <7>3. QED
              BY <7>1, <7>2 DEF RxTarget
          <6>2. QED
            BY <2>2, <6>1 DEF RxTarget, FromLinks
        <5>3. \A f \in cfg.functions : linked'[f].root <=> linked[f].root
          BY <3>2, <5>1
        <5>4. rxCount = 0 => ~RxTarget(k)' /\ \A f \in cfg'.functions : ~linked'[f].root
          BY <1>1, <2>2, <5>2, <5>3 DEF ServerInv, RxInv
        <5>5. rxCount = 1 => RxTarget(k)' /\ \E g \in cfg'.functions : RootIs(linked, g)'
          BY <1>1, <2>2, <5>2, <5>3 DEF ServerInv, RxInv, RootIs, FromLinks
        <5>6. QED
          BY <2>2, <5>1, <5>4, <5>5 DEF RxInv
      <4>2. CASE Len(to) = 1 /\ rxCount = 0
        <5>1. PICK g \in cfg.functions : targets = {g}
          BY <1>6, <4>2
        <5>2. \A f \in cfg.functions : linked'[f].root <=> f = g
          BY <1>1, <3>2, <4>2, <5>1 DEF ServerInv, RxInv
        <5>3. RootIs(linked, g)' /\ g \in cfg'.functions
          <6>1. to[1].name = g
            BY <4>2, <5>1
          <6>2. QED
            BY <1>4, <2>2, <4>2, <5>1, <5>2, <6>1, FileKept DEF RootIs
        <5>4. RxTarget(k)'
          BY <1>2, <1>3, <1>4, <2>2, <4>2 DEF RxTarget, FromLinks
        <5>5. rxCount' = 1
          BY <2>2, <4>2
        <5>6. QED
          BY <5>3, <5>4, <5>5 DEF RxInv
      <4>3. Len(to) = 0 \/ (Len(to) = 1 /\ rxCount = 0)
        <5>1. \A r \in {0, 1}, l \in Nat : ~(r + l > 1) => l = 0 \/ (l = 1 /\ r = 0)
          OBVIOUS
        <5>2. QED
          BY <1>3, <2>2, <2>4, <5>1
      <4>4. QED
        BY <4>1, <4>2, <4>3
    <3>6. ServedInv' /\ SlotsInv' /\ NfsInv'
      <4>1. ServedInv'
        BY <2>2, ServedKept DEF ServerInv
      <4>2. SlotsInv'
        BY <1>1, <2>2, <3>0, SlotsKept DEF ServerInv
      <4>3. NfsInv'
        BY <1>1, <2>2, <3>0, SealedKept, FileKept DEF ServerInv, NfsInv
      <4>4. QED
        BY <4>1, <4>2, <4>3
    <3>7. RefusedForCause'
      BY <3>0 DEF RefusedForCause, Failed
    <3>8. QED
      BY <2>2, <3>4, <3>5, <3>6, <3>7 DEF ServerInv
  <2>5. QED
    BY <2>3, <2>4
<1>7. QED
  BY <1>5, <1>6

\* A link from a function gives that function its state.
LEMMA LinkNfKeeps ==
  ASSUME ServerInv, LinkNf
  PROVE  ServerInv'
<1> DEFINE from == cfg.links[k + 1].from
           to == cfg.links[k + 1].to
           refused == from \notin cfg.functions \/ ~AllDefined(to)
<1>1. phase = "link" /\ k < Len(cfg.links) /\ from # "rx"
  BY DEF LinkNf
<1>2. cfg \in Config /\ k \in Nat /\ Len(cfg.links) \in Nat /\ k + 1 \in 1..Len(cfg.links)
  BY <1>1, FileFacts DEF ServerInv, ServerTypeOK
<1>3. CASE refused
  <2>1. Fail("error")
    BY <1>3 DEF LinkNf, AllDefined
  <2>2. ~SoundLinks
    BY <1>1, <1>2, <1>3 DEF SoundLinks, AllDefined, Defined, Special
  <2>3. QED
    BY <2>1, <2>2, FailKeeps DEF Failed
<1>4. CASE ~refused
  <2> DEFINE new == IF IsTail(to) \/ linked[from].state.tail THEN TailState
                    ELSE BodyState([j \in 1..Len(to) |-> Resolve(to[j])])
  <2>1. from \in cfg.functions /\ AllDefined(to)
    BY <1>4
  <2>2. linked' = [linked EXCEPT ![from].state = new] /\ CountRx(0)
    BY <1>4 DEF LinkNf, AllDefined
  <2>3. /\ k' = k + 1 /\ rxCount \in {0, 1} /\ rxCount' = rxCount /\ phase' = "link"
        /\ UNCHANGED <<cfg, arch, waiting, todo, slots, nfs, served>>
        /\ ServerTypeOK'
    <3>1. /\ k' = k + 1 /\ rxCount \in {0, 1} /\ rxCount' = rxCount + 0
          /\ UNCHANGED <<cfg, arch, waiting, todo, slots, nfs, served>>
          /\ ~(rxCount + 0 > 1) => phase' = "link"
          /\ ServerTypeOK'
      BY <1>1, <2>2, CountFacts
    <3>2. QED
      BY <3>1
  <2>4. LinkShape(linked)
    BY <1>1 DEF ServerInv, LinkedInv
  <2>5. /\ linked' = [f \in cfg.functions |->
                        IF f = from THEN [linked[f] EXCEPT !.state = new] ELSE linked[f]]
        /\ linked' = [f \in cfg.functions |-> linked'[f]]
    <3> HIDE DEF from, new
    <3>1. DOMAIN linked = cfg.functions
      BY <2>4 DEF LinkShape
    <3>2. QED
      BY <2>1, <2>2, <2>4, <3>1 DEF LinkShape
  <2>6. ASSUME NEW f \in cfg.functions
        PROVE  /\ linked'[f].state = IF f = from THEN new ELSE linked[f].state
               /\ linked'[f].root = linked[f].root
               /\ linked'[f] = LinkOf(f, linked'[f].state, linked'[f].root)
    <3> HIDE DEF from, new
    <3>1. linked[f] = LinkOf(f, linked[f].state, linked[f].root)
      BY <2>4 DEF LinkShape
    <3>2. CASE f = from
      <4>1. linked'[f] = LinkOf(f, new, linked[f].root)
        BY <2>5, <3>1, <3>2, LinkFields
      <4>2. QED
        BY <3>2, <4>1, LinkFields
    <3>3. CASE f # from
      BY <2>5, <3>1, <3>3
    <3>4. QED
      BY <3>2, <3>3
  <2>7. LinkShape(linked')
    BY <2>4, <2>5, <2>6 DEF LinkShape
  <2>8. Derived(from, new, k + 1)
    <3>1. k + 1 \in FromLinks(from)
      BY <1>2 DEF FromLinks
    <3>2. CASE new = StateOf(to)
      <4> HIDE DEF new
      <4> QED
        BY <1>2, <2>1, <3>1, <3>2 DEF Derived
    <3>3. CASE ~IsTail(to) /\ linked[from].state.tail
      <4>1. linked[from].state # BodyState(<<>>)
        BY <3>3 DEF BodyState
      <4>2. PICK j \in FromLinks(from) :
              /\ j <= k
              /\ AllDefined(cfg.links[j].to)
              /\ linked[from].state = StateOf(cfg.links[j].to)
        BY <1>1, <2>1, <4>1 DEF ServerInv, LinkedInv, Settled, Derived
      <4>3. StateOf(cfg.links[j].to) = TailState
        BY <3>3, <4>2 DEF StateOf, BodyState
      <4>4. Derived(from, TailState, k)
        BY <4>2, <4>3 DEF Derived
      <4>5. QED
        BY <1>2, <3>3, <4>4, SettledGrows
    <3>4. QED
      BY <3>2, <3>3 DEF StateOf
  <2>9. LinkedInv'
    <3> HIDE DEF new
    <3>1. ASSUME NEW f \in cfg.functions
          PROVE  \/ Settled(f, linked'[f].state, k + 1)
                 \/ linked'[f].state = BodyState(<<>>) /\ \A j \in FromLinks(f) : k + 1 < j
      <4>1. CASE f = from
        BY <2>6, <2>8, <4>1 DEF Settled
      <4>2. CASE f # from
        <5>1. \A j \in FromLinks(f) : j # k + 1 /\ j \in Nat
          BY <1>2, <4>2 DEF FromLinks
        <5>2. linked'[f].state = linked[f].state
          BY <2>6, <4>2
        <5>3. CASE Settled(f, linked[f].state, k)
          BY <1>2, <5>2, <5>3, SettledGrows
        <5>4. CASE linked[f].state = BodyState(<<>>) /\ \A j \in FromLinks(f) : k < j
          BY <1>2, <5>1, <5>2, <5>4
        <5>5. QED
          BY <1>1, <5>3, <5>4 DEF ServerInv, LinkedInv
      <4>3. QED
        BY <4>1, <4>2
    <3>2. LinkShape(linked)'
      BY <2>3, <2>7, SealedKept
    <3>3. ASSUME NEW f \in cfg'.functions
          PROVE  \/ Settled(f, linked[f].state, k)'
                 \/ linked'[f].state = BodyState(<<>>) /\ \A j \in FromLinks(f)' : k' < j
      <4>1. Settled(f, linked[f].state, k)' <=> Settled(f, linked'[f].state, k + 1)
        BY <2>3, SettledKept
      <4>2. QED
        BY <2>3, <3>1, <4>1, FileKept
    <3>4. arch' \in Arch
      BY <1>1, <2>3 DEF ServerInv, LinkedInv
    <3>5. QED
      BY <2>3, <3>2, <3>3, <3>4 DEF LinkedInv
  <2>10. RxInv'
    <3> HIDE DEF new
    <3>1. RxTarget(k)' <=> RxTarget(k)
      <4>1. \A j \in FromLinks("rx") : j \in Nat /\ j # k + 1
        BY <1>1, <1>2 DEF FromLinks
      <4>2. \A j \in Nat : j <= k + 1 <=> j <= k \/ j = k + 1
        BY <1>2
      <4>3. RxTarget(k + 1) <=> RxTarget(k)
        BY <4>1, <4>2 DEF RxTarget
      <4>4. QED
        BY <2>3, <4>3 DEF RxTarget, FromLinks
    <3>2. \A f \in cfg.functions : linked'[f].root <=> linked[f].root
      BY <2>6
    <3>3. rxCount = 0 => ~RxTarget(k)' /\ \A f \in cfg'.functions : ~linked'[f].root
      BY <1>1, <2>3, <3>1, <3>2 DEF ServerInv, RxInv
    <3>4. rxCount = 1 => RxTarget(k)' /\ \E g \in cfg'.functions : RootIs(linked, g)'
      BY <1>1, <2>3, <3>1, <3>2 DEF ServerInv, RxInv, RootIs, FromLinks
    <3>5. QED
      BY <2>3, <3>3, <3>4 DEF RxInv
  <2>11. ServedInv'
    BY <2>3, ServedKept DEF ServerInv
  <2>12. SlotsInv'
    BY <1>1, <2>3, SlotsKept DEF ServerInv
  <2>13. NfsInv'
    BY <1>1, <2>3, SealedKept, FileKept DEF ServerInv, NfsInv
  <2>14. RefusedForCause'
    BY <2>3 DEF RefusedForCause, Failed
  <2>15. QED
    BY <2>3, <2>9, <2>10, <2>11, <2>12, <2>13, <2>14 DEF ServerInv
<1>5. QED
  BY <1>3, <1>4

\* The loop of main starts with nothing built.
LEMMA ServerInitInv == ServerInit => ServerInv
<1> SUFFICES ASSUME ServerInit PROVE ServerInv
  OBVIOUS
<1>1. DOMAIN served = {}
  BY DEF ServerInit
<1>2. Len(cfg.links) \in Nat
  BY FileFacts DEF ServerInit
<1>3. ServerTypeOK
  BY <1>1, <1>2 DEF ServerInit, ServerTypeOK, Phases
<1>4. SlotsInv /\ NfsInv /\ LinkedInv /\ RxInv /\ RefusedForCause
  BY DEF ServerInit, SlotsInv, NfsInv, LinkedInv, RxInv, RefusedForCause, Failed
<1>5. ServedInv
  BY <1>1 DEF ServedInv
<1>6. QED
  BY <1>3, <1>4, <1>5 DEF ServerInv

\* I/O fails before make_concrete has begun.
LEMMA FileErrorKeeps ==
  ASSUME ServerInv, FileError
  PROVE  ServerInv'
BY EarlyFailKeeps DEF FileError, Failed

\* Nothing happens.
LEMMA ServerStutterKeeps ==
  ASSUME ServerInv, UNCHANGED serverVars
  PROVE  ServerInv'
<1>1. UNCHANGED <<cfg, phase, arch, waiting, todo, slots, nfs, k, linked, rxCount, served>>
  BY DEF serverVars, unit
<1>2. ServerTypeOK' /\ RefusedForCause'
  BY <1>1, FileKept DEF ServerInv, ServerTypeOK, RefusedForCause
<1>3. ServedInv'
  BY <1>1, ServedKept DEF ServerInv
<1>4. SlotsInv'
  BY <1>1, FileKept DEF ServerInv, SlotsInv, Sized
<1>5. NfsInv'
  BY <1>1, SealedKept, FileKept DEF ServerInv, NfsInv
<1>6. LinkedInv'
  <2>1. LinkShape(linked)' <=> LinkShape(linked)
    BY <1>1 DEF LinkShape, LinkOf
  <2>2. ASSUME NEW f
        PROVE  Settled(f, linked[f].state, k)' <=> Settled(f, linked[f].state, k)
    BY <1>1, SettledKept
  <2>3. QED
    BY <1>1, <2>1, <2>2, FileKept DEF ServerInv, LinkedInv
<1>7. RxInv'
  BY <1>1 DEF ServerInv, RxInv, RxTarget, FromLinks, RootIs
<1>8. QED
  BY <1>2, <1>3, <1>4, <1>5, <1>6, <1>7 DEF ServerInv

\* Every step of compile_chain.
LEMMA ServerNextKeeps ==
  ASSUME ServerInv, [ServerNext]_serverVars
  PROVE  ServerInv'
<1>1. ASSUME NEW a \in Arch, NextArch(a) PROVE ServerInv'
  BY <1>1, NextArchKeeps
<1>2. ASSUME NEW f \in cfg.functions, WriteXdp(f) \/ WriteUser(f) PROVE ServerInv'
  BY <1>2, WriteXdpKeeps, WriteUserKeeps
<1>3. QED
  BY <1>1, <1>2, FileErrorKeeps, AnalyseKeeps, CompileXdpKeeps, CompileUserKeeps,
     LinkRxKeeps, LinkNfKeeps, FinishKeeps, ServeKeeps, ServerStutterKeeps DEF ServerNext
-----------------------------------------------------------------------------
(***************************************************************************)
(* What the invariant says of the chains that are served.                  *)
(***************************************************************************)

\* A sealed message has one root.
LEMMA SealedEntry ==
  ASSUME NEW c, Sealed(c)
  PROVE  Cardinality({f \in cfg.functions : c.link[f].root}) = 1
<1>1. PICK g \in cfg.functions : RootIs(c.link, g)
  BY DEF Sealed
<1>2. {f \in cfg.functions : c.link[f].root} = {g}
  BY <1>1 DEF RootIs
<1>3. QED
  BY <1>2, FS_Singleton

\* An action that Resolve makes of a defined target names a function of the
\* chain, one with an XDP program if it is a tailcall.
LEMMA ResolveFacts ==
  ASSUME NEW d, d.up \in BOOLEAN, Defined(d)
  PROVE  /\ Resolve(d).kind \in {"upcall", "tailcall"} <=> d.name \in cfg.functions
         /\ d.name \in cfg.functions => Resolve(d).nf = d.name
         /\ d.name \notin cfg.functions => Resolve(d).kind = d.name /\ Resolve(d).nf = NoNf
         /\ Resolve(d).kind = "tailcall" => d.name \notin cfg.disable_xdp
BY DEF Resolve, Defined, Special, Act, Upcall, Tailcall

\* The actions of a derived state.
LEMMA DerivedActs ==
  ASSUME cfg \in Config, NEW f, NEW state, NEW i, Derived(f, state, i)
  PROVE  \E j \in FromLinks(f) :
           /\ AllDefined(cfg.links[j].to)
           /\ state.tail \in BOOLEAN
           /\ state.tail <=> IsTail(cfg.links[j].to)
           /\ state.tail => Len(state.acts) = 0
           /\ ~state.tail =>
                /\ Len(state.acts) = Len(cfg.links[j].to)
                /\ \A l \in 1..Len(cfg.links[j].to) :
                     /\ state.acts[l] = Resolve(cfg.links[j].to[l])
                     /\ Defined(cfg.links[j].to[l])
<1>1. PICK j \in FromLinks(f) :
        AllDefined(cfg.links[j].to) /\ state = StateOf(cfg.links[j].to)
  BY DEF Derived
<1>2. Len(cfg.links[j].to) \in Nat
  BY FileFacts DEF FromLinks
<1>3. CASE IsTail(cfg.links[j].to)
  <2>1. state.tail = TRUE /\ Len(state.acts) = 0
    BY <1>1, <1>3 DEF StateOf, TailState
  <2>2. QED
    BY <1>1, <1>3, <2>1
<1>4. CASE ~IsTail(cfg.links[j].to)
  <2> DEFINE acts == [l \in 1..Len(cfg.links[j].to) |-> Resolve(cfg.links[j].to[l])]
  <2>1. state = [tail |-> FALSE, acts |-> acts]
    BY <1>1, <1>4 DEF StateOf, BodyState
  <2>2. Len(acts) = Len(cfg.links[j].to)
    BY <1>2
  <2>3. \A l \in 1..Len(cfg.links[j].to) : acts[l] = Resolve(cfg.links[j].to[l])
    OBVIOUS
  <2>4. state.tail = FALSE /\ state.acts = acts
    <3> HIDE DEF acts
    <3> QED
      BY <2>1
  <2>5. \A l \in 1..Len(cfg.links[j].to) : Defined(cfg.links[j].to[l])
    BY <1>1, <1>4 DEF AllDefined
  <2> HIDE DEF acts
  <2>6. QED
    BY <1>1, <1>4, <2>2, <2>3, <2>4, <2>5
<1>5. QED
  BY <1>3, <1>4

\* The actions of a sealed message come from defined targets of links.
LEMMA SealedActs ==
  ASSUME cfg \in Config, NEW c, Sealed(c), NEW f \in cfg.functions
  PROVE  /\ c.link[f].state.tail \in BOOLEAN
         /\ Len(c.link[f].state.acts) \in Nat
         /\ c.link[f].state.tail => Len(c.link[f].state.acts) = 0
         /\ \A l \in 1..Len(c.link[f].state.acts) :
              \E j \in FromLinks(f) :
                LET to == cfg.links[j].to
                IN  /\ l \in 1..Len(to)
                    /\ to[l].up \in BOOLEAN
                    /\ Defined(to[l])
                    /\ c.link[f].state.acts[l] = Resolve(to[l])
<1> DEFINE state == c.link[f].state
<1>1. Settled(f, state, Len(cfg.links))
  BY DEF Sealed
<1> HIDE DEF state
<1> DEFINE Source(l, j) ==
      LET to == cfg.links[j].to
      IN  /\ l \in 1..Len(to)
          /\ to[l].up \in BOOLEAN
          /\ Defined(to[l])
          /\ state.acts[l] = Resolve(to[l])
    Goal == /\ state.tail \in BOOLEAN
            /\ Len(state.acts) \in Nat
            /\ state.tail => Len(state.acts) = 0
            /\ \A l \in 1..Len(state.acts) : \E j \in FromLinks(f) : Source(l, j)
<1>2. ASSUME Derived(f, state, Len(cfg.links)) PROVE Goal
  <2>1. PICK j \in FromLinks(f) :
          /\ state.tail \in BOOLEAN
          /\ state.tail => Len(state.acts) = 0
          /\ ~state.tail =>
               /\ Len(state.acts) = Len(cfg.links[j].to)
               /\ \A l \in 1..Len(cfg.links[j].to) :
                    /\ state.acts[l] = Resolve(cfg.links[j].to[l])
                    /\ Defined(cfg.links[j].to[l])
    BY <1>2, DerivedActs
  <2>2. /\ Len(cfg.links[j].to) \in Nat
        /\ \A l \in 1..Len(cfg.links[j].to) : cfg.links[j].to[l].up \in BOOLEAN
    BY FileFacts DEF FromLinks
  <2>3. Len(state.acts) \in Nat
    BY <2>1, <2>2
  <2>4. ASSUME NEW l \in 1..Len(state.acts) PROVE Source(l, j)
    <3>1. ~state.tail
      BY <2>1
    <3>2. QED
      BY <2>1, <2>2, <3>1
  <2>5. QED
    BY <2>1, <2>3, <2>4
<1>3. ASSUME state = BodyState(<<>>) PROVE Goal
  <2>1. state.tail = FALSE /\ Len(state.acts) = 0
    BY <1>3 DEF BodyState
  <2>2. 1..Len(state.acts) = {}
    BY <2>1
  <2>3. state.tail \in BOOLEAN /\ Len(state.acts) \in Nat
    BY <1>3, <2>1 DEF BodyState
  <2>4. \A l \in 1..Len(state.acts) : \E j \in FromLinks(f) : Source(l, j)
    <3> HIDE DEF Source
    <3> QED
      BY <2>2
  <2>5. QED
    BY <2>1, <2>3, <2>4
<1>4. Goal
  BY <1>1, <1>2, <1>3 DEF Settled
<1>5. QED
  BY <1>4 DEF state

\* Every action of a sealed message can be carried out.
LEMMA SealedRunnable ==
  ASSUME cfg \in Config, NEW c, Sealed(c), NEW f \in cfg.functions,
         NEW l \in 1..Len(c.link[f].state.acts),
         c.link[f].state.acts[l].kind \in {"upcall", "tailcall"}
  PROVE  /\ c.link[f].state.acts[l].nf \in cfg.functions
         /\ c.nfs[c.link[f].state.acts[l].nf].elf
         /\ c.link[f].state.acts[l].kind = "tailcall" => c.nfs[c.link[f].state.acts[l].nf].ebpf
<1> DEFINE action == c.link[f].state.acts[l]
<1>1. PICK j \in FromLinks(f) :
        /\ cfg.links[j].to[l].up \in BOOLEAN
        /\ Defined(cfg.links[j].to[l])
        /\ action = Resolve(cfg.links[j].to[l])
  BY SealedActs
<1>6. /\ action.nf \in cfg.functions
      /\ action.kind = "tailcall" => action.nf \notin cfg.disable_xdp
  BY <1>1, ResolveFacts
<1>7. c.nfs[action.nf] = Payload(action.nf, TRUE)
  BY <1>6 DEF Sealed, Payloads
<1>8. c.nfs[action.nf].elf /\ (c.nfs[action.nf].ebpf <=> action.nf \in XdpBins)
  <2>1. \A g : Payload(g, TRUE).elf /\ (Payload(g, TRUE).ebpf <=> g \in XdpBins)
    BY DEF Payload
  <2>2. QED
    BY <1>7, <2>1
<1>9. QED
  BY <1>6, <1>8 DEF XdpBins

\* A function with a single link: its state is what that link says, and it has
\* an action for each of its variants, for which there is room in its tables.
LEMMA SealedCovered ==
  ASSUME cfg \in Config, NEW c, Sealed(c), NEW f \in cfg.functions,
         Derived(f, c.link[f].state, Len(cfg.links)), NEW j, FromLinks(f) = {j}
  PROVE  /\ AllDefined(cfg.links[j].to)
         /\ c.link[f].state = StateOf(cfg.links[j].to)
         /\ Len(cfg.links[j].to) = Cardinality(cfg.variants[f])
         /\ \/ c.link[f].state.tail
            \/ Len(c.link[f].state.acts) = Cardinality(cfg.variants[f])
         /\ c.slots[f] \in Nat /\ Cardinality(cfg.variants[f]) <= c.slots[f]
<1>1. /\ AllDefined(cfg.links[j].to)
      /\ c.link[f].state = StateOf(cfg.links[j].to)
  BY DEF Derived
<1>2. Len(cfg.links[j].to) = Cardinality(cfg.variants[f])
  <2>1. FirstLink(f) = cfg.links[j]
    <3>1. j \in Nat
      BY FileFacts DEF FromLinks
    <3>2. (CHOOSE i \in FromLinks(f) : \A l \in FromLinks(f) : i <= l) \in FromLinks(f)
      BY <3>1
    <3>3. QED
      BY <3>2 DEF FirstLink
  <2>2. ~BranchMismatch(f) /\ cfg.variants[f] # {}
    BY DEF Sealed, Sized, Castable
  <2>3. QED
    BY <2>1, <2>2 DEF BranchMismatch
<1>3. \/ c.link[f].state.tail
      \/ Len(c.link[f].state.acts) = Cardinality(cfg.variants[f])
  <2>1. PICK i \in FromLinks(f) :
          ~c.link[f].state.tail => Len(c.link[f].state.acts) = Len(cfg.links[i].to)
    BY DerivedActs
  <2>2. QED
    BY <1>2, <2>1
<1>4. c.slots[f] \in Nat /\ Cardinality(cfg.variants[f]) <= c.slots[f]
  <2>1. IsFiniteSet(cfg.variants[f]) /\ Cardinality(cfg.variants[f]) <= LargestEnum
    BY ChainsmithAssumption
  <2>2. Cardinality(cfg.variants[f]) \in Nat
    BY <2>1, FS_CardinalityType
  <2>3. c.slots[f] = NextPowerOfTwo(Cardinality(cfg.variants[f]))
    BY DEF Sealed, Sized, Castable, ReturnLen
  <2>4. QED
    BY <2>1, <2>2, <2>3, PowerFacts
<1>5. QED
  BY <1>1, <1>2, <1>3, <1>4
-----------------------------------------------------------------------------
(***************************************************************************)
(* Every architecture serves the same chain.  What make_concrete makes of  *)
(* the first i links is a function of the file alone: Exact says which.    *)
(***************************************************************************)
Upto(f, i) == {j \in FromLinks(f) : j <= i}

\* The last link from f counts, unless one of them makes f a Tail.
StateIs(f, state, i) ==
  \/ (f = "rx" \/ Upto(f, i) = {}) /\ state = BodyState(<<>>)
  \/ f # "rx" /\ state = TailState /\ \E j \in Upto(f, i) : IsTail(cfg.links[j].to)
  \/ /\ f # "rx"
     /\ \A j \in Upto(f, i) : ~IsTail(cfg.links[j].to)
     /\ \E j \in Upto(f, i) :
          (\A l \in Upto(f, i) : l <= j) /\ state = StateOf(cfg.links[j].to)

\* f is the target of a link from rx.
IsRoot(f, i) ==
  \E j \in Upto("rx", i) : \E n \in 1..Len(cfg.links[j].to) : cfg.links[j].to[n].name = f

Exact(link, i) ==
  \A f \in cfg.functions :
    StateIs(f, link[f].state, i) /\ (link[f].root <=> IsRoot(f, i))

Tables == [f \in cfg.functions |-> NextPowerOfTwo(ReturnLen(f))]

Whole(c) ==
  /\ c = [links |-> c.links, link |-> c.link, nfs |-> c.nfs, slots |-> c.slots]
  /\ Exact(c.link, Len(cfg.links))
  /\ c.slots = Tables

Building == {"analyse", "write_xdp", "write_user", "link"}

AlikeInv ==
  /\ phase = "link" => Exact(linked, k)
  /\ \A a \in DOMAIN served : Whole(served[a])
  /\ phase = "next" => Arch = DOMAIN served \union waiting
  /\ phase \in Building => Arch = DOMAIN served \union waiting \union {arch}
  /\ phase = "serve" => Arch = DOMAIN served

\* The file determines the state of a function.
LEMMA StateUnique ==
  ASSUME cfg \in Config, NEW f, NEW i, NEW x, NEW y, StateIs(f, x, i), StateIs(f, y, i)
  PROVE  x = y
<1>1. \A j \in Upto(f, i) : j \in Nat
  BY FileFacts DEF Upto, FromLinks
<1>2. \A j, l \in Nat : j <= l /\ l <= j => j = l
  OBVIOUS
<1>3. QED
  BY <1>1, <1>2 DEF StateIs

\* None of this changes while the file is compiled.
LEMMA ExactKept ==
  ASSUME cfg' = cfg, NEW c, NEW i
  PROVE  /\ Exact(c, i)' <=> Exact(c, i)
         /\ Whole(c)' <=> Whole(c)
<1>1. \A f : Upto(f, i)' = Upto(f, i)
  BY FileKept DEF Upto
<1>2. ASSUME NEW to PROVE StateOf(to)' = StateOf(to)
  <2>1. [j \in 1..Len(to) |-> Resolve(to[j])]' = [j \in 1..Len(to) |-> Resolve(to[j])]
    BY FileKept
  <2>2. QED
    BY <2>1 DEF StateOf
<1>3. ASSUME NEW d, NEW n PROVE Exact(d, n)' <=> Exact(d, n)
  <2>1. \A f : Upto(f, n)' = Upto(f, n)
    BY FileKept DEF Upto
  <2>2. \A f : StateIs(f, d[f].state, n)' <=> StateIs(f, d[f].state, n)
    BY <1>2, <2>1 DEF StateIs
  <2>3. \A f : IsRoot(f, n)' <=> IsRoot(f, n)
    BY <2>1 DEF IsRoot
  <2>4. QED
    BY <2>2, <2>3 DEF Exact
<1>4. Tables' = Tables
  BY FileKept DEF Tables
<1>5. Whole(c)' <=> Whole(c)
  BY <1>3, <1>4 DEF Whole
<1>6. QED
  BY <1>3, <1>5

\* One more link from another function changes nothing for f.
LEMMA UptoOther ==
  ASSUME cfg \in Config, NEW i \in Nat, i + 1 \in 1..Len(cfg.links), NEW f,
         cfg.links[i + 1].from # f
  PROVE  Upto(f, i + 1) = Upto(f, i)
<1>1. \A j \in FromLinks(f) : j \in Nat /\ j # i + 1
  BY FileFacts DEF FromLinks
<1>2. \A j \in Nat : j <= i + 1 <=> j <= i \/ j = i + 1
  OBVIOUS
<1>3. QED
  BY <1>1, <1>2 DEF Upto

\* One more link from f comes last.
LEMMA UptoSelf ==
  ASSUME cfg \in Config, NEW i \in Nat, i + 1 \in 1..Len(cfg.links), NEW f,
         cfg.links[i + 1].from = f
  PROVE  /\ Upto(f, i + 1) = Upto(f, i) \union {i + 1}
         /\ \A l \in Upto(f, i + 1) : l <= i + 1
<1>1. \A j \in FromLinks(f) : j \in Nat
  BY FileFacts DEF FromLinks
<1>2. \A j \in Nat : j <= i + 1 <=> j <= i \/ j = i + 1
  OBVIOUS
<1>3. i + 1 \in FromLinks(f) /\ i + 1 <= i + 1
  BY DEF FromLinks
<1>4. Upto(f, i + 1) = Upto(f, i) \union {i + 1}
  BY <1>1, <1>2, <1>3 DEF Upto
<1>5. \A l \in Upto(f, i + 1) : l <= i + 1
  BY DEF Upto
<1>6. QED
  BY <1>4, <1>5

\* A link from rx makes its targets roots.
LEMMA LinkRxExact ==
  ASSUME ServerInv, Exact(linked, k), LinkRx, phase' = "link"
  PROVE  Exact(linked', k + 1) /\ k' = k + 1 /\ UNCHANGED <<cfg, arch, waiting, served>>
<1> DEFINE to == cfg.links[k + 1].to
           targets == {to[j].name : j \in 1..Len(to)}
<1>1. phase = "link" /\ k < Len(cfg.links) /\ cfg.links[k + 1].from = "rx"
  BY DEF LinkRx
<1>2. cfg \in Config /\ k \in Nat /\ Len(cfg.links) \in Nat /\ k + 1 \in 1..Len(cfg.links)
  BY <1>1, FileFacts DEF ServerInv, ServerTypeOK
<1>3. /\ linked' = [f \in cfg.functions |->
                      [linked[f] EXCEPT !.root = linked[f].root \/ f \in targets]]
      /\ CountRx(Len(to))
  BY DEF LinkRx, Fail
<1>4. k' = k + 1 /\ UNCHANGED <<cfg, arch, waiting, served>>
  BY <1>3 DEF CountRx
<1>5. LinkShape(linked)
  BY <1>1 DEF ServerInv, LinkedInv
<1>6. ASSUME NEW f \in cfg.functions
      PROVE  StateIs(f, linked'[f].state, k + 1) /\ (linked'[f].root <=> IsRoot(f, k + 1))
  <2>1. PICK r : r = (linked[f].root \/ f \in targets)
    OBVIOUS
  <2>2. linked'[f] = [linked[f] EXCEPT !.root = r]
    BY <1>3, <2>1
  <2>3. linked[f] = LinkOf(f, linked[f].state, linked[f].root)
    BY <1>5 DEF LinkShape
  <2>4. linked'[f] = LinkOf(f, linked[f].state, r)
    BY <2>2, <2>3, LinkFields
  <2>5. linked'[f].state = linked[f].state /\ linked'[f].root = r
    BY <2>4, LinkFields
  <2>6. StateIs(f, linked[f].state, k + 1)
    <3>1. StateIs(f, linked[f].state, k)
      BY DEF Exact
    <3>2. CASE f = "rx"
      BY <3>1, <3>2 DEF StateIs
    <3>3. CASE f # "rx"
      BY <1>1, <1>2, <3>1, <3>3, UptoOther DEF StateIs
    <3>4. QED
      BY <3>2, <3>3
  <2>7. IsRoot(f, k + 1) <=> IsRoot(f, k) \/ f \in targets
    <3>1. Upto("rx", k + 1) = Upto("rx", k) \union {k + 1}
      BY <1>1, <1>2, UptoSelf
    <3>2. QED
      BY <3>1 DEF IsRoot
  <2>8. linked[f].root <=> IsRoot(f, k)
    BY DEF Exact
  <2>9. QED
    BY <2>1, <2>5, <2>6, <2>7, <2>8
<1>7. QED
  BY <1>4, <1>6 DEF Exact

\* A link from a function gives it its state.
LEMMA LinkNfExact ==
  ASSUME ServerInv, Exact(linked, k), LinkNf, phase' = "link"
  PROVE  Exact(linked', k + 1) /\ k' = k + 1 /\ UNCHANGED <<cfg, arch, waiting, served>>
<1> DEFINE from == cfg.links[k + 1].from
           to == cfg.links[k + 1].to
           new == IF IsTail(to) \/ linked[from].state.tail THEN TailState
                  ELSE BodyState([j \in 1..Len(to) |-> Resolve(to[j])])
<1>1. phase = "link" /\ k < Len(cfg.links) /\ from # "rx"
  BY DEF LinkNf
<1>2. cfg \in Config /\ k \in Nat /\ Len(cfg.links) \in Nat /\ k + 1 \in 1..Len(cfg.links)
  BY <1>1, FileFacts DEF ServerInv, ServerTypeOK
<1>3. /\ linked' = [linked EXCEPT ![from].state = new]
      /\ CountRx(0) /\ from \in cfg.functions
  BY DEF LinkNf, Fail
<1>4. k' = k + 1 /\ UNCHANGED <<cfg, arch, waiting, served>>
  BY <1>3 DEF CountRx
<1>5. LinkShape(linked)
  BY <1>1 DEF ServerInv, LinkedInv
<1>6. linked' = [f \in cfg.functions |->
                   IF f = from THEN [linked[f] EXCEPT !.state = new] ELSE linked[f]]
  <2> HIDE DEF from, new
  <2>1. DOMAIN linked = cfg.functions
    BY <1>5 DEF LinkShape
  <2>2. QED
    BY <1>3, <1>5, <2>1 DEF LinkShape
<1>7. ASSUME NEW f \in cfg.functions
      PROVE  /\ linked'[f].state = IF f = from THEN new ELSE linked[f].state
             /\ linked'[f].root = linked[f].root
  <2> HIDE DEF from, new
  <2>1. linked[f] = LinkOf(f, linked[f].state, linked[f].root)
    BY <1>5 DEF LinkShape
  <2>2. CASE f = from
    <3>1. linked'[f] = LinkOf(f, new, linked[f].root)
      BY <1>6, <2>1, <2>2, LinkFields
    <3>2. QED
      BY <2>2, <3>1, LinkFields
  <2>3. CASE f # from
    BY <1>6, <2>3
  <2>4. QED
    BY <2>2, <2>3
<1>8. \A f : IsRoot(f, k + 1) <=> IsRoot(f, k)
  <2>1. Upto("rx", k + 1) = Upto("rx", k)
    BY <1>1, <1>2, UptoOther
  <2>2. QED
    BY <2>1 DEF IsRoot
<1>9. StateIs(from, new, k + 1)
  <2>1. /\ Upto(from, k + 1) = Upto(from, k) \union {k + 1}
        /\ \A l \in Upto(from, k + 1) : l <= k + 1
    BY <1>2, UptoSelf
  <2>2. StateIs(from, linked[from].state, k)
    BY <1>3 DEF Exact
  <2>3. linked[from].state.tail <=> \E j \in Upto(from, k) : IsTail(cfg.links[j].to)
    <3>1. TailState.tail /\ \A acts : ~BodyState(acts).tail
      BY DEF TailState, BodyState
    <3>2. \A x : ~IsTail(x) => ~StateOf(x).tail
      BY <3>1 DEF StateOf
    <3>3. QED
      BY <1>1, <2>2, <3>1, <3>2 DEF StateIs
  <2>4. CASE IsTail(to) \/ linked[from].state.tail
    <3>1. new = TailState
      BY <2>4
    <3>2. \E j \in Upto(from, k + 1) : IsTail(cfg.links[j].to)
      BY <2>1, <2>3, <2>4
    <3>3. QED
      BY <1>1, <3>1, <3>2 DEF StateIs
  <2>5. CASE ~IsTail(to) /\ ~linked[from].state.tail
    <3>1. new = StateOf(cfg.links[k + 1].to)
      BY <2>5 DEF StateOf
    <3>2. \A j \in Upto(from, k + 1) : ~IsTail(cfg.links[j].to)
      BY <2>1, <2>3, <2>5
    <3> HIDE DEF new, from
    <3>3. QED
      BY <1>1, <2>1, <3>1, <3>2 DEF StateIs
  <2>6. QED
    BY <2>4, <2>5
<1>10. ASSUME NEW f \in cfg.functions, f # from
       PROVE  StateIs(f, linked[f].state, k + 1)
  <2>1. Upto(f, k + 1) = Upto(f, k)
    BY <1>2, <1>10, UptoOther
  <2>2. StateIs(f, linked[f].state, k)
    BY <1>10 DEF Exact
  <2>3. QED
    BY <2>1, <2>2 DEF StateIs
<1> HIDE DEF new, from
<1>11. QED
  BY <1>4, <1>7, <1>8, <1>9, <1>10 DEF Exact

\* make_concrete starts with nothing.
LEMMA CompileUserExact ==
  ASSUME ServerInv, CompileUser, phase' = "link"
  PROVE  Exact(linked', 0) /\ k' = 0 /\ UNCHANGED <<cfg, arch, waiting, served>>
<1>1. /\ linked' = [f \in cfg.functions |-> Unlinked(f)]
      /\ UNCHANGED <<cfg, arch, waiting, served, k>>
      /\ phase = "write_user"
  BY DEF CompileUser, Fail
<1>2. k = 0 /\ cfg \in Config
  BY <1>1 DEF ServerInv, LinkedInv, ServerTypeOK
<1>3. \A f : Upto(f, 0) = {}
  BY <1>2, FileFacts DEF Upto, FromLinks
<1>4. ASSUME NEW f \in cfg.functions
      PROVE  linked'[f].state = BodyState(<<>>) /\ ~linked'[f].root
  <2>1. PICK r : r = FALSE
    OBVIOUS
  <2>2. Unlinked(f) = LinkOf(f, BodyState(<<>>), r)
    BY <2>1 DEF Unlinked, LinkOf
  <2>3. linked'[f] = LinkOf(f, BodyState(<<>>), r)
    BY <1>1, <2>2
  <2>4. linked'[f].state = BodyState(<<>>) /\ linked'[f].root = r
    BY <2>3, LinkFields
  <2>5. QED
    BY <2>1, <2>4
<1>5. QED
  BY <1>1, <1>2, <1>3, <1>4 DEF Exact, StateIs, IsRoot

\* into_single_message adds the chain of one architecture.
LEMMA FinishAlike ==
  ASSUME ServerInv, AlikeInv, Finish, phase' = "next"
  PROVE  AlikeInv'
<1>1. phase = "link" /\ k = Len(cfg.links)
  BY DEF Finish
<1>2. PICK order \in Orders(cfg.functions) :
        /\ served' = [a \in DOMAIN served \union {arch} |->
                        IF a = arch THEN Message(order) ELSE served[a]]
        /\ UNCHANGED <<cfg, arch, waiting>>
  BY DEF Finish, Fail
<1>3. slots = Tables
  <2>1. /\ slots = [f \in cfg.functions |-> slots[f]]
        /\ \A f \in cfg.functions : slots[f] = NextPowerOfTwo(ReturnLen(f))
    BY <1>1 DEF ServerInv, SlotsInv, Sized
  <2>2. QED
    BY <2>1 DEF Tables
<1>4. Whole(Message(order))
  <2>1. /\ Message(order).links = order /\ Message(order).link = linked
        /\ Message(order).nfs = nfs /\ Message(order).slots = slots
    BY DEF Message
  <2>2. Exact(linked, Len(cfg.links))
    BY <1>1 DEF AlikeInv
  <2>3. Message(order) = [links |-> order, link |-> linked, nfs |-> nfs, slots |-> slots]
    BY DEF Message
  <2>4. QED
    BY <1>3, <2>1, <2>2, <2>3 DEF Whole
<1>5. ASSUME NEW a \in DOMAIN served' PROVE Whole(served'[a])
  BY <1>2, <1>4 DEF AlikeInv
<1>6. \A a \in DOMAIN served' : Whole(served[a])'
  BY <1>2, <1>5, ExactKept
<1>7. Arch = DOMAIN served' \union waiting'
  BY <1>1, <1>2 DEF AlikeInv, Building
<1>8. QED
  BY <1>6, <1>7 DEF AlikeInv, Building

\* The other steps leave what is served alone.
LEMMA AlikeKept ==
  ASSUME AlikeInv, cfg' = cfg, served' = served,
         phase' = "link" => Exact(linked', k'),
         phase' = "next" => phase = "next" /\ waiting' = waiting,
         phase' \in Building =>
           DOMAIN served \union waiting' \union {arch'} = Arch,
         phase' = "serve" => DOMAIN served = Arch
  PROVE  AlikeInv'
<1>1. \A a \in DOMAIN served' : Whole(served[a])'
  BY ExactKept DEF AlikeInv
<1>2. phase' = "link" => Exact(linked, k)'
  BY ExactKept
<1>3. QED
  BY <1>1, <1>2 DEF AlikeInv, Building

\* Every step keeps the architectures alike.
LEMMA NextAlike ==
  ASSUME ServerInv, AlikeInv, [ServerNext]_serverVars
  PROVE  AlikeInv'
<1>0. waiting \subseteq Arch
  BY DEF ServerInv, ServerTypeOK
<1>e. ASSUME NEW kind \in Failed, Fail(kind) PROVE AlikeInv'
  BY <1>e, AlikeKept DEF Fail, Failed, Building
<1>s. ASSUME UNCHANGED <<cfg, arch, waiting, served>>, phase \in Building, phase' \in Building,
             phase' = "link" => Exact(linked', k')
      PROVE  AlikeInv'
  <2>1. DOMAIN served \union waiting' \union {arch'} = Arch
    BY <1>s DEF AlikeInv
  <2>2. QED
    BY <1>s, <2>1, AlikeKept DEF Building
<1>1. ASSUME NEW a \in Arch, NextArch(a) PROVE AlikeInv'
  <2>1. /\ phase' = "analyse" /\ cfg' = cfg /\ served' = served
        /\ waiting' \union {arch'} = waiting
    BY <1>1 DEF NextArch
  <2>2. DOMAIN served \union waiting' \union {arch'} = Arch
    BY <1>1, <2>1 DEF NextArch, AlikeInv
  <2>3. QED
    BY <2>1, <2>2, AlikeKept
<1>2. ASSUME FileError PROVE AlikeInv'
  BY <1>2, <1>e DEF FileError, Failed
<1>3. ASSUME Analyse PROVE AlikeInv'
  BY <1>3, <1>e, <1>s DEF Analyse, Failed, Building
<1>4. ASSUME NEW f \in cfg.functions, WriteXdp(f) PROVE AlikeInv'
  BY <1>4, <1>e, <1>s DEF WriteXdp, Failed, Building
<1>5. ASSUME NEW f \in cfg.functions, WriteUser(f) PROVE AlikeInv'
  BY <1>5, <1>e, <1>s DEF WriteUser, Failed, Building
<1>6. ASSUME CompileXdp PROVE AlikeInv'
  BY <1>6, <1>e, <1>s DEF CompileXdp, Failed, Building
<1>7. ASSUME CompileUser PROVE AlikeInv'
  <2>1. CASE phase' = "link"
    BY <1>7, <1>s, <2>1, CompileUserExact DEF CompileUser, Building
  <2>2. CASE phase' # "link"
    BY <1>7, <1>e, <2>2 DEF CompileUser, Failed
  <2>3. QED
    BY <2>1, <2>2
<1>c. ASSUME NEW i, CountRx(i), phase = "link" PROVE phase' = "link" \/ phase' = "error"
  BY <1>c DEF CountRx
<1>8. ASSUME LinkRx \/ LinkNf PROVE AlikeInv'
  <2>0. phase = "link" /\ Exact(linked, k)
    BY <1>8 DEF LinkRx, LinkNf, AlikeInv
  <2>1. CASE phase' = "link"
    BY <1>8, <1>s, <2>0, <2>1, LinkRxExact, LinkNfExact DEF Building
  <2>2. CASE phase' = "error"
    <3>1. cfg' = cfg /\ served' = served
      BY <1>8, <2>2 DEF LinkRx, LinkNf, CountRx, Fail
    <3>2. QED
      BY <2>2, <3>1, AlikeKept DEF Building
  <2>3. phase' = "link" \/ phase' = "error"
    BY <1>8, <1>c, <2>0 DEF LinkRx, LinkNf, Fail
  <2>4. QED
    BY <2>1, <2>2, <2>3
<1>9. ASSUME Finish PROVE AlikeInv'
  <2>1. CASE phase' = "next"
    BY <1>9, <2>1, FinishAlike
  <2>2. CASE phase' # "next"
    BY <1>9, <1>e, <2>2 DEF Finish, Failed
  <2>3. QED
    BY <2>1, <2>2
<1>10. ASSUME Serve PROVE AlikeInv'
  <2>1. phase' = "serve" /\ cfg' = cfg /\ served' = served /\ DOMAIN served = Arch
    BY <1>10 DEF Serve, AlikeInv
  <2>2. QED
    BY <2>1, AlikeKept DEF Building
<1>11. ASSUME UNCHANGED serverVars PROVE AlikeInv'
  <2>1. UNCHANGED <<cfg, phase, arch, waiting, linked, k, served>>
    BY <1>11 DEF serverVars, unit
  <2>2. QED
    BY <2>1, AlikeKept DEF AlikeInv
<1>12. QED
  BY <1>1, <1>2, <1>3, <1>4, <1>5, <1>6, <1>7, <1>8, <1>9, <1>10, <1>11 DEF ServerNext

\* Two whole messages for the same file differ in the order of their links only.
LEMMA WholeAlike ==
  ASSUME cfg \in Config, NEW c, NEW d, Whole(c), Whole(d), Sealed(c), Sealed(d)
  PROVE  [c EXCEPT !.links = d.links] = d
<1>1. c.slots = d.slots /\ c.nfs = d.nfs
  BY DEF Whole, Sealed
<1>2. /\ c.link = [f \in cfg.functions |-> LinkOf(f, c.link[f].state, c.link[f].root)]
      /\ d.link = [f \in cfg.functions |-> LinkOf(f, d.link[f].state, d.link[f].root)]
  BY DEF Sealed, LinkShape
<1>3. ASSUME NEW f \in cfg.functions
      PROVE  c.link[f].state = d.link[f].state /\ c.link[f].root = d.link[f].root
  <2>1. /\ StateIs(f, c.link[f].state, Len(cfg.links))
        /\ StateIs(f, d.link[f].state, Len(cfg.links))
        /\ c.link[f].root <=> d.link[f].root
    BY DEF Whole, Exact
  <2>2. c.link[f].root \in BOOLEAN /\ d.link[f].root \in BOOLEAN
    BY DEF Sealed, LinkShape
  <2>3. c.link[f].state = d.link[f].state
    BY <2>1, StateUnique
  <2>4. c.link[f].root = d.link[f].root
    BY ONLY <2>1, <2>2
  <2>5. QED
    BY <2>3, <2>4
<1>4. c.link = d.link
  BY <1>2, <1>3
<1>5. /\ c = [links |-> c.links, link |-> c.link, nfs |-> c.nfs, slots |-> c.slots]
      /\ d = [links |-> d.links, link |-> d.link, nfs |-> d.nfs, slots |-> d.slots]
  BY DEF Whole
<1>6. [c EXCEPT !.links = d.links]
        = [links |-> d.links, link |-> c.link, nfs |-> c.nfs, slots |-> c.slots]
  BY <1>5
<1>7. QED
  BY <1>1, <1>4, <1>5, <1>6
-----------------------------------------------------------------------------
\* compile_chain keeps its inductive invariant, for every chain.toml and every
\* set of architectures.
THEOREM ServerInvariant == ServerSpec => []ServerInv
BY ServerInitInv, ServerNextKeeps, PTL DEF ServerSpec

\* The state of compile_chain keeps its types.
THEOREM ServerTypes == ServerSpec => []ServerTypeOK
<1>1. ServerInv => ServerTypeOK
  BY DEF ServerInv
<1>2. QED
  BY <1>1, ServerInvariant, PTL

\* Nothing is served until every architecture is built, and all of them serve
\* the same chain: what compile_chain makes of a file depends on nothing that
\* an earlier target left behind.
THEOREM AlwaysServesAllAlike == ServerSpec => []ServesAllAlike
<1>1. ServerInit => AlikeInv
  <2>1. SUFFICES ASSUME ServerInit PROVE AlikeInv
    OBVIOUS
  <2>2. DOMAIN served = {} /\ phase = "next" /\ waiting = Arch
    BY <2>1 DEF ServerInit
  <2>3. QED
    BY <2>2 DEF AlikeInv, Building
<1>2. ServerInv /\ AlikeInv /\ [ServerNext]_serverVars => AlikeInv'
  BY NextAlike
<1>3. ServerInv /\ AlikeInv => ServesAllAlike
  <2>1. SUFFICES ASSUME ServerInv, AlikeInv PROVE ServesAllAlike
    OBVIOUS
  <2>2. ASSUME NEW a \in DOMAIN served, NEW b \in DOMAIN served
        PROVE  [served[a] EXCEPT !.links = served[b].links] = served[b]
    BY <2>1, WholeAlike DEF ServerInv, ServerTypeOK, ServedInv, AlikeInv
  <2>3. phase = "serve" => DOMAIN served = Arch
    BY <2>1 DEF AlikeInv
  <2>4. QED
    BY <2>2, <2>3 DEF ServesAllAlike, Messages
<1>4. QED
  BY <1>1, <1>2, <1>3, ServerInvariant, PTL DEF ServerSpec

\* Every chain that is served has exactly one root, whatever the file says and
\* however its links are ordered.
THEOREM AlwaysOneEntry == ServerSpec => []OneEntry
<1>1. ServerInv => OneEntry
  BY SealedEntry DEF ServerInv, ServedInv, OneEntry, Messages
<1>2. QED
  BY <1>1, ServerInvariant, PTL

\* Every action of a served chain can be carried out: its function has a shared
\* library, and an XDP program as well if it is reached by a tailcall.
THEOREM AlwaysRunnable == ServerSpec => []TargetsRunnable
<1>1. ServerInv => TargetsRunnable
  BY SealedRunnable DEF ServerInv, ServerTypeOK, ServedInv, TargetsRunnable, Messages
<1>2. QED
  BY <1>1, ServerInvariant, PTL

\* make_concrete refuses a chain.toml only when something is wrong with it.
THEOREM AlwaysRefusedForCause == ServerSpec => []RefusedForCause
<1>1. ServerInv => RefusedForCause
  BY DEF ServerInv
<1>2. QED
  BY <1>1, ServerInvariant, PTL

\* Every function of a served chain has an action for each of its variants, if
\* no function has two links or is called rx: what the check of write_xdp_programs
\* is for, and a file with a second link escapes.
THEOREM CoveredIfLinkedOnce ==
  ASSUME \A c \in Config :
           /\ "rx" \notin c.functions
           /\ \A i, j \in 1..Len(c.links) :
                c.links[i].from = c.links[j].from /\ c.links[i].from \in c.functions => i = j
  PROVE  ServerSpec => []BranchesCovered
<1>1. ServerInv => BranchesCovered
  <2> SUFFICES ASSUME ServerInv, NEW a \in DOMAIN served, NEW f \in cfg.functions
               PROVE  \/ served[a].link[f].state.tail
                      \/ Len(served[a].link[f].state.acts) = Cardinality(cfg.variants[f])
    BY DEF BranchesCovered, Messages
  <2>1. cfg \in Config /\ Sealed(served[a])
    BY DEF ServerInv, ServerTypeOK, ServedInv
  <2>2. PICK j \in FromLinks(f) : TRUE
    BY <2>1 DEF Sealed, Sized, BranchMismatch
  <2>3. FromLinks(f) = {j}
    BY <2>1, <2>2 DEF FromLinks
  <2>4. Derived(f, served[a].link[f].state, Len(cfg.links))
    BY <2>1 DEF Sealed, Settled
  <2>5. QED
    BY <2>1, <2>3, <2>4, SealedCovered
<1>2. QED
  BY <1>1, ServerInvariant, PTL
=============================================================================
