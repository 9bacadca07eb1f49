# galette in TLA+

galette runs service function chains of network functions (NFs) in XDP and,
when a packet needs more than XDP can do, in userland over AF_XDP sockets.
`chainsmith` compiles a `chain.toml` and the crates it names into eBPF programs
and shared libraries and serves them; `pulley` fetches the chain, loads it into
the kernel, and runs the dataplane threads that handle upcalls.

This directory specifies both programs, model-checks the specifications on
small instances, and proves nearly all of their safety properties, and the two
refinements, for every instance.

## 1. Inventory

| component | state it keeps | operations | interacts through |
|---|---|---|---|
| dataplane threads (`pulley/src/main.rs`) | one batch of descriptors per thread, loop indices | poll, walk each frame, swap-remove partition, transmit, return credits | AF_XDP queues, SPSC rings, the kill bus |
| UMEM (`pulley/src/lib.rs`, xsk-rs, kernel) | where each of the 2048 descriptors is | fill, receive, transmit, complete | fill/completion/rx/tx queues |
| start-up (`pulley/src/main.rs`) | options, sockets, ring ends not yet handed out | derive thread count, create sockets and rings, spawn | moves values into threads |
| installation (`pulley/src/lib.rs`) | loaded programs, eBPF maps, id tables, libraries | `get_chain`, `install_chain`, `load_dylib_nfs` | eBPF maps shared with the XDP programs |
| packet path (`chainsmith/include`, `dataplane_core`) | one packet, its metadata | XDP program, tailcall, upcall, userland loop | maps, packet metadata |
| build (`chainsmith/src`) | chain file, payloads, links under construction | analyse, write, compile, `make_concrete` | cargo, the served message |
| sessions (`chainsmith/src/main.rs`, `protocol`, `get_chain`) | one WebSocket and one task per client, the file `testcrps.post` | bind, write the store, accept, handshakes, request, answer | messages, the file |
| challenge-response keys (`protocol/src/keys.rs`, `crp`) | challenge table | respond, make a certificate, verify one | TLS handshake, the file |
| maps of NFs (`nf/src/map.rs`, `nf-macros`, `define_xdp`, `RawMap`) | eBPF maps of one NF | define, build, hand over, seed, get, put | one map used by XDP programs and threads |
| packet access (`nf/src/packet.rs`), examples | none | slices of a packet | – |

What is hard: descriptors move between kernel, several threads and a mediator
without locks while every count that says "the queue was full" is ignored; a
thread may die in somebody else's NF; XDP programs run from the moment the
root is attached; the same chain file is interpreted by four pieces of code
(first link, last link, kernel table, userland table) that must agree; ids come
from the iteration order of a hash map. A client may connect before the store
both sides need is written, and a server may die while it writes it. The maps of
an NF are numbered by three pieces of code, in two orders, and lose their types
on the way to userland. `PROJECT.json` lists these hazards at
their lines with the properties that would catch each.

What makes the components correct:

* dataplane: no descriptor in two places (`Exclusive`), none lost but for two
  reasons (`LossExplained`; by a single thread for none, `NoLeak`), all that
  are not lost recycled (`NeverStuck`, `CreditReturned`), ignored counts
  justified (`ProduceFits`), each batch split by its verdicts
  (`BatchPartition`), shutdown reaches everyone (`StopsOnKill`);
* start-up: one mediator, each ring with one sender and listened to
  (`RolesMatch`), nothing expected by two threads (`NoFatal`);
* build: what is served is well formed (`OneEntry`, `TargetsRunnable`,
  `BranchesCovered`), what `make_concrete` refuses is wrong
  (`RefusedForCause`), and it is all architectures or none, with one chain for
  all (`ServesAllAlike`);
* installation: a served chain installs unless it has one of four known faults
  (`RefusalExplained`), tables are complete before packets come
  (`WiredWhenAttached`);
* packet path: the packet is treated as `chain.toml` says
  (`ImplementsChainWalk`), the walk ends except in a cycle of userland
  (`WalkEnds`); a panic of a thread has one
  of four known causes, an end other than configured one of five
  (`CrashExplained`, `FateExplained`, which hold `NoCrash` and
  `FateAsConfigured` to sound files);
* sessions: a pulley gets the chain of its own target from the chainsmith it
  reached (`RightChain`), in `puf-tls` mode only over a common store
  (`StoresAgree`), meets each error only for a cause of its kind
  (`FailsForCause`) and never waits for ever (`GetChainEnds`); answers match
  requests (`AnswersInOrder`);
* maps of NFs: both sides of an NF mean the same map by a field (`Coherent`)
  and agree on its key and value (`LayoutsMatch`), refusals have a cause
  (`RefusedForOrder`).

## 2. Modules

```
Umem ── MCUmem                 Chain ── Chainsmith ── Install ── Walk ── MCWalk
Startup ── MCStartup                        │                     │ refines
NfMaps ── MCNfMaps                     MCChainsmith           ChainWalk

Keys ── Session ── MCSession           ChainFiles: notation for chain files, used
           │ refines                   by MCChainsmith and MCWalk
        Delivery
```

The theorems about a module are in a module of their own that extends it:
UmemProofs, StartupProofs, NfMapsProofs, SessionProofs, and ChainsmithProofs ──
InstallProofs ── WalkProofs, each of which builds on the one before.

**Umem.** The life of a descriptor. `fq`, `cq`, `rx[t]`, `tx[t]` are the AF_XDP
queues as sequences, `ring[t]` the ring worker `t` sends into, `stale[t]` the
slots of it that were produced into the fill queue but not yet advanced past.
`frames[t]`, `i[t]`, `numTx[t]` are the locals of `dataplane_core`, `pc[t]` the
place in the loop. `verdict` is a history variable: what the walk said of each
frame. The three loop functions share their steps: `Poll`, `Keep`, `Discard`,
`Send`, then `Push` (`dataplane_other_mediate`) or `Complete`, `Refill` and the
ring loop `SkipRing`/`DrainRing`/`AdvanceRing`/`EndDrain`
(`dataplane_self_mediate` and the disposal thread; the solo loop is the case
without senders). One step is one call on a shared object, so the interleavings
are those of the code; the two `produce` calls for the two slices of a ring are
one step because only the mediator produces and the kernel only consumes. The
kernel's part (`KernelRx`, `KernelTx`) and the library calls (`Produce`: all or
nothing; `Consumable`: some, and none only if there are none; `PushSlice`: as
many as fit) are modelled from the use the code makes of them. `Panic` is the
unwrap of `poll_and_consume` (at the top of a loop or asleep in it), an unwrap
of the walk or the NF itself, or the unwrap of `produce_and_wakeup`; with the
thread go its batch and its socket. `Kill`/`Stop` are the broadcast. `poll`
returns with packets or after its timeout; the option is a `usize` that the
code casts to `i32` (`AsInt`), and a negative timeout means none, so a thread
may `Sleep` until a packet comes. The width is the constant `IntBits`.

**Startup.** `main` up to the spawned threads: `Derive`, `Sockets`, `Rings`,
`SpawnExtra`, `Spawn`. A failed expectation is the role `"fatal"`. Umem's
constants `Mediator` and `Sender` are what `RolesMatch` establishes.

**Chain.** `XdpLinkState`, `LinkAction` and their operations.

**Chainsmith.** `compile_chain` for one architecture after the other. A chain
file and what the NF sources say is one record of the constant `Config`; map
names are words plus whether they are in snake case, which is what the two
spellings (`ScreamingSnake` here, `to_ascii_uppercase` in pulley) tell apart.
Cargo may fail at will, and so may any file operation (`FileError`). NF names
stand for their UUIDs (fresh and distinct). `ChainsmithAssumption` says what a
parsed file is: finitely many functions, lists of links and targets, none of
the functions called by the string that stands for no function here (`NoNf`),
and enums of at most `LargestEnum` = 2^30 variants, the largest power of two
TLC has a number for. The files are assumed not to change between the passes
for two architectures.

**Install** extends Chainsmith: `GetChain`, the loading loop
(`SkipLink`/`LoadLink`/`FailLoad`), the entries stored in two maps of known
names (`EndLoad`, or `FailSeed` when a map of that name has other sizes, which
the field `bad_seed` of a chain file says of a function), the wiring loop
(`WireLink`/`NoteLink`/`FailWire`), `Attach`/`FailAttach`, `LoadDylibs`. One
iteration is one step: nothing else reads the tables before `Attach`.
`KernelRefuses` is what has nothing to do with the file: no such interface, or
a kernel that will not. The links arrive in any order, as `into_values` of a
hash map yields them.

**Walk** extends Install with one packet: the `end` and `chain` programs in the
kernel, the metadata, and the loop of `dataplane_core`. What an NF computes is
any of its variants. One packet is enough because the tables no longer change
once packets flow. `Faulty` collects the four ways in which a function of a
served chain can make a thread panic: a second link, maps but no XDP program,
explicit enum values, and a special name (`Misnamed`: the links of a function
called `rx` are taken for links from the network, and a lone target `tx` is the
special one even if a function has that name). `Userland` is the set of
functions a packet may reach after an upcall, the least set closed under the
links; `Swallows` says that one of those lets packets pass, which in userland
discards them. Its outcomes `tx`, `drop`, `crash` in userland are `Keep`,
`Discard` and `Panic` of Umem.

**ChainWalk** is the abstract specification of the packet path, in terms of the
chain file only; `ImplementsChainWalk` says that Walk refines it. A queued
packet is mapped to one in transit to the function its upcall names.

**Keys** has no state: stores of challenge-response pairs, the certificate made
from one, the two verifiers and the TLS modes, as operators. Two random stores
never agree, so an answer is known by the store it comes from; a signature holds
when it was made over the answer the verifier's own store gives.

**Session** extends Keys: chainsmith's `main` after the build (`Bind`,
`OpenStore`, `WriteStore`, `Accept`, `Exit`), the connection handlers
(`TlsAccept`, `WsAccept`, `HandleRequest`, `HandleOther`, `SeeEnd`) and
`get_chain` (`ReadStore` to `FailReceive`). `file` is `testcrps.post`, in the
directory both programs run in; it survives `Exit`, and chainsmith may be
started again in another mode. `toServer` and `toClient` are the messages under
way; a connection may `Break` at any time, a relay may add a ping or a close
(`Stray`), and guests are clients that are not pulley and say what their script
says, or nothing. `trouble` is a history variable: what has gone wrong for each
pulley. It read `testcrps.post`, or was about to dial, while no chainsmith was
serving (`early`); it found a part of a store that no chainsmith serves with
(`half`); its connection broke or its chainsmith ended (`lost`); a relay closed
the session (`closed`). Whether chainsmith has ever died says nothing by
itself: a pulley that comes later is in no trouble. `Gone` is what the end of
`main` does, by an error or a panic: every task ends where it stands. `deser`
refuses a close frame before the stream ends, so the arm `SessionClosed` of
`get_chain` is never reached.

**Delivery** is the abstract specification of sessions: every pulley gets the
chain some start of chainsmith built for its target, or a failure. Its two
outcomes are what Install starts from (`GetChain`, `LoseServer`).

**NfMaps** follows the maps of one NF: the struct under `#[maps]` (`decl`), the
maps `chain.toml` gives it (`given`), the statics `define_xdp` writes
(`DefineXdp`), the two builds (`BuildXdp` checks types, and that the values of
an array are `Clone`; `BuildUser` cannot), the slice pulley makes of the names
in the message (`Load`), the entries it seeds (`Seed`) and puts from the XDP
program and the library. Names are numbers in the order of a BTreeMap, types
are symbols. `last` is a history variable: what was last stored in each field.

## 3. Runs

| run | shows |
|---|---|
| `umem_first` | first-thread mode, 2 threads, 3 descriptors, rings the size of the UMEM, panics in both threads, ctrl+c: the accounting, what may be lost, and that the rest is recycled (246 thousand states) |
| `umem_extra` | disposal thread, 2 workers that poll without a timeout, 2 descriptors, rings the size of the UMEM, panics and ctrl+c |
| `umem_leak` | **violation**: with rings the size of the UMEM, as allocated, a descriptor is lost |
| `startup` | all thread counts and both modes |
| `chainsmith` | 354 chain files, 2 architectures |
| `chainsmith_twice` | **violation**: a second link escapes the branch check |
| `walk` | 78 sound chain files and 18 that are served although faulty, built, installed and walked: `chain.toml` is obeyed, and the only causes of refusals, panics and unexpected fates |
| `walk_user_pass` | **violation**: `pass` means drop in userland |
| `session` | one pulley with any options, one guest that talks or stays silent, a chainsmith of any mode restarted in any other (1.3 million states) |
| `session_plain` | **violation**: a `ws://` pulley panics over a half-written store |
| `nf_maps` | all structs of two maps over three types, some of three, all given maps |
| `nf_maps_order` | **violation**: a struct not declared in alphabetical order does not build |

Each violation has an entry under `findings` with the line of the repository it
contradicts. `umem_first` is the counterpart of `umem_leak`: a ring of the
UMEM's size has no room for the descriptors in it *and* for those the mediator
has produced but not advanced past, and `LossExplained` says that such slots,
and threads that leave, are all that ever costs a descriptor. A single thread
has no ring, and loses nothing (`SoloKeepsAll`, section 4).

`ServesAllAlike` compares whole messages of the two architectures, so that
something left over from the first pass, or from one that failed, would show.
`WalkEnds` is checked on files with cycles too: in the kernel the tailcall
limit ends the walk; in userland nothing does, and the property allows a packet
to stay for ever only at a function that the file leads back to.

In `walk` the refinement is claimed for sound files (`Sound`): for a file with a
second link, explicit discriminants, maps without an XDP program, a special name
or a `pass` in userland the mapping leaves the abstract packet at `rx`, and the
`...Explained` invariants say what may go wrong instead.

Two observations have no run of their own. A chain whose root has `disable_xdp`
is built and served, and `install_chain` reaches its `unreachable!()`
(`pulley/src/lib.rs:419`): the root is noted before the function without XDP
payload is skipped (lines 233-239). It is one of the four causes of
`RefusalExplained`, and fails as such in `walk`. With a timeout that the cast
makes negative, `NeverStuck` fails in first-thread mode: thread 0 sleeps in
`poll` while every descriptor waits in the completion queue or a ring for
thread 0 to return it, so no packet can come to wake it; with a disposal
thread, as in `umem_extra`, credits still come back. `NeverStuck` also excepts
a dead thread 0, because in this mode nobody takes its place.

*Bounds.* Two workers give every pair of roles (mediator and sender, sender and
sender); three descriptors are the least with a batch in which a swap moves a
frame past another, two suffice for the accounting with a third thread. Queues
hold exactly the UMEM, as with the defaults of 2048. `TailLimit` is 2 instead
of 33: a kernel cycle reaches it. Symmetry over descriptors is used only in
`umem_leak`, which has no temporal property. The chain files vary branches,
userland-only NFs, entries and faults around a base file; three NFs give every
mixture of kernel and userland hops. `IntBits` is 4 instead of 32, with one
timeout on either side of the cut: 5 stays, 12 becomes negative. chainsmith
starts at most `MaxStarts` = 2 times, enough for a stale and for a half-written
store; a relay adds at most `MaxStray` = 1 frame; a store answers `NChallenges`
= 2 challenges, of which `CertChallenge` = 1 is used. Two maps are the fewest
with two orders, three the fewest with a cyclic one; maps have one or two
entries so that they fill up. Runs whose system may stop (ctrl+c, all threads
dead, build finished) switch the deadlock check off.

*Fairness.* Weak fairness of each thread's loop (threads run and `poll` has a
timeout), of the mediator's ring loop, and of transmissions by the device; of
pulley's `main` as sequential code (a packet that is queued before the
libraries are loaded waits for them) and of a packet once it has arrived.
Chainsmith by itself has safety properties only and needs none. In Session, of
`main` from the bound socket on, of each accept, of each task and of each
`get_chain` (the runtime runs what is ready; a break of a connection is noticed
in the end, by the timeouts of TCP rather than of the code). Packets, panics,
ctrl+c, kernel refusals, starts of chainsmith and words of a guest are never
forced. A thread whose poll has no timeout and no packet is not ready.

## 4. Proofs

Seven modules prove theorems; but for the hypotheses of `SoloKeepsAll` and
`CoveredIfLinkedOnce`, none assumes more of the constants than the named
assumption of the module it extends, which TLC evaluates on the runs. In every
one the theorem `...Invariant` (or its counterpart) states the inductive
invariant, one lemma per action shows that the action keeps it, and the
properties follow. TLC checked each inductive invariant on the module's run
before it was proved.

**UmemProofs**: any finite set of descriptors, any set of threads, any ring and
queue size no smaller than the UMEM, which both are in the code (2048 slots for
2048 frames), both modes, any set of threads that may panic (`UmemAssumption`).
`TypeCorrect`, `DescriptorsExclusive`, `ProduceAlwaysFits`,
`BatchesPartitioned`, `LossesExplained`, and `SoloKeepsAll`: `NoLeak` for the
loop of a single thread. `Exclusive` is not inductive by itself. The invariant
is `TypeOK /\ Shape /\ Exclusive`, where `Shape` says what each program counter
implies: a batch's Tx block lies within the batch, threads that hold no batch
have an empty one and no verdicts, only workers walk a batch, and only the
mediator refills or drains. The argument is uniform: `Held` is a function from
places to sequences, and every action does one of four things to it
(`NextMoves`): nothing (`Settled`), moves a piece from one place to another
(`Passed`), reorders one place (`Reordered`), or empties the places of a thread
that leaves (`Torn`). `ProduceFits` follows by counting: two places without a
common or repeated descriptor hold at most `Cardinality(Frame)` between them
(`TwoFit`). So a queue accepts whatever it is given, and only a ring can take
less than a place gives up. `LossExplained` is a fact about steps and needs to
know what a place loses: a thread that leaves takes its own places with it
(`Torn`), and of what it pushes a thread loses only what finds no slot. What is
unread in the ring and what the thread pushes are no more than the UMEM
together, so at least that much room is there but for the `stale` slots, and no
more is lost than there are of these. With one thread there is no ring to lose
anything in, which is `SoloKeepsAll`. `BatchPartition` needs one more conjunct,
`Walked` (the verdict of each entry of a batch is the one its block stands
for), and `Exclusive`: deciding a frame changes no other verdict because a
batch lists no descriptor twice.

**StartupProofs**: every number of cores the machine or the command line may
give. `StartupTypes`, `NeverFatal`, `RolesAlwaysMatch`. The invariant says, at
each step of `main`, which ring ends are still in its hands, so that the thread
spawned next finds its own. This is what UmemProofs assumes of `Mediator` and
`Sender`.

**ChainsmithProofs**: every chain file and every set of architectures.
`ServerTypes`, `AlwaysOneEntry`, `AlwaysRunnable`, `AlwaysRefusedForCause`,
`AlwaysServesAllAlike`, and `CoveredIfLinkedOnce`, which is `BranchesCovered`
under the hypothesis that no function is linked twice or called `rx`; without
it the run `chainsmith_twice` refutes it. The invariant `ServerInv` says how
much of the chain follows from the file at each stage: of a function whose
links have been met, its state comes from one of them (`Settled`); of the root,
that it was counted (`RxInv`); of a message that is served, all of it
(`Sealed`). `Sealed` is all that the later modules know of chainsmith.

**InstallProofs** adds pulley. `InstallTypes`, `AlwaysWired`, `AlwaysExplained`.
`ClientInv` is a loop invariant for each of the two loops: after n links, in
whatever order they came, exactly the XDP programs among them are loaded and
their maps found (`LoadInv`), and exactly those that branch have their maps
filled and one of the first n ids (`Wiring`). That install_chain refuses a chain
only for a fault of the file rests on `OneLink` and `SealedCovered`: with a
single link the actions fit the table that was generated for them.

**WalkProofs** adds the packet. `PacketTypes`, `CrashAlwaysExplained`,
`FateAlwaysExplained`, and the refinement `WalksByTheBook`. `PacketInv` says
where a packet can be: in the kernel only at a loaded program, in the queue
with metadata that name the upcall it makes (`QueuedInv`), in userland only at
a function of `Userland`. Three lemmas carry the rest: `AsWritten` (a function
without a fault has, for each value it returns, the action its one link names),
`KernelFacts` (the maps of a program say the same as the chain) and `UserFacts`
(userland gets the maps it was compiled for). The refinement is proved whole:
`ChainWalk` has no fairness, so it is the initial condition (`WalkInitWalks`)
and one step (`WalkNextWalks`), which maps every action to `Enter`, `Move`,
`Land`, `Decide` or a stutter.

**SessionProofs**: any number of pulleys and guests, any scripts, any number of
starts. `SessionTypes`, `AlwaysRightChain`, `StoresAlwaysAgree`,
`AlwaysFailsForCause`, `AlwaysInOrder`, and `ImplementsDeliverySafety`: the
initial condition and the next-state relation of Delivery. An error is returned
together with what excuses it (`Excuse`), and that is never taken back
(`ExcuseKept`); what excuses a refused handshake follows from the store and the
scheme, which the invariant keeps for every stage of it. The invariant has a
part for chainsmith, one for every client and one for every pulley; a step
concerns one client (`Concerns`) and leaves the part of every other alone
(`UntouchedKept`), so that each action is proved for one client.

**NfMapsProofs**: every struct of maps and every way to give it maps. `NfTypes`,
`LayoutsAlwaysMatch`, `AlwaysCoherent`, `OnlyRefusedForOrder`. What carries them
is that a map's number determines the map (`PlaceOfName`), so that a slice
without names or types still puts each field's own map behind it.

*What the proofs found.* `WriteStore` of Session left the tasks of a server that
panics while it makes its certificate where they were; in the code they end with
it. `FateExplained` and `CrashExplained` counted three faults: the case of a
function called `rx` or `tx`, and for `FateExplained` that of a `pass` in
userland, came out of the proof of `AsWritten`, TLC then showed them on chain
files that MCWalk did not have, and now has.

*What stays with TLC.* Liveness (`NeverStuck`, `CreditReturned`, `StopsOnKill`,
`WalkEnds`, `GetChainEnds`, the liveness of Delivery), which this prover cannot
do; and `BranchesCovered` without the hypothesis, which only holds of the files
of its run. `NoLeak` is false for several threads with the rings as they are
allocated (`umem_leak`), and so is `PlainNeedsNoStore` (`session_plain`).

## 5. Plan

Action properties that follow from the invariants: that a table which packets
use never changes, and that the outcome of `get_chain` is final.

## 6. Not modelled

NF code and packet bytes, and with them `nf/src/packet.rs` (bounds checks over
slices, in the kernel by a library outside the repository) and what an NF makes
of the contents of its maps; lost updates between `get` and `put`, for which
`Map` promises nothing; values wider than a word; sharing of a map by two NFs,
which the repository does not define. Cryptography is symbolic. The text of
generated files, wording and logging, thread affinity, Windows builds, command
line parsing and the files changing between the passes for two architectures are
left out. A host that vanishes without closing its connections is not in
Session: `get_chain` has no timeout and would wait for the kernel to notice.

Startup and Umem are not composed in one run: `RolesMatch` establishes what
Umem assumes of `Mediator` and `Sender`, and threads that start late behave in
Umem like threads that are not scheduled yet. Session and Install meet in
Delivery for the same reason. Memory ordering inside the rings and queues is
trusted to the libraries.
