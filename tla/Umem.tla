-------------------------------- MODULE Umem --------------------------------
(***************************************************************************)
(* The life of a UMEM frame descriptor in pulley.                          *)
(*                                                                         *)
(* create_upcall_sockets registers one UMEM and hands every descriptor to  *)
(* the kernel through the fill queue.  From then on a descriptor travels   *)
(*                                                                         *)
(*   fill queue -> rx queue of a thread -> the thread's `frames` batch     *)
(*     -> its tx queue -> completion queue -> ... -> fill queue            *)
(*     -> (frame discarded) spent-descriptor ring  -> fill queue           *)
(*                                                                         *)
(* Every dataplane thread runs dataplane_core and transmits on its own     *)
(* socket, but only one thread (the mediator: thread 0, or a disposal      *)
(* thread of its own) touches the fill and completion queues.  The others  *)
(* pass the descriptors of discarded frames to it through a single         *)
(* producer single consumer ring each.  The program never looks at how     *)
(* many descriptors a queue or a ring accepted, so its correctness rests   *)
(* on the accounting specified here.                                       *)
(***************************************************************************)
EXTENDS Integers, Sequences, FiniteSets

CONSTANTS
  Frame,      \* the descriptors of the UMEM (2048 of them in the code)
  Worker,     \* the dataplane threads, one per AF_XDP socket
  First,      \* the dataplane thread with t_id = 0
  Extra,      \* the disposal thread of `--umem-mode extra-thread`
  UmemMode,   \* "first-thread" or "extra-thread"
  QueueSize,  \* slots of every AF_XDP queue (libbpf's default, 2048)
  RingCap,    \* slots of a spent-descriptor ring (2048)
  Timeout,    \* --upcall-poll-timeout, a usize
  IntBits,    \* the width of the int it is cut to (32)
  Faulty,     \* the workers in which something may panic
  CtrlC       \* whether the operator may interrupt the program

ASSUME UmemAssumption ==
  /\ IsFiniteSet(Frame)
  /\ First \in Worker
  /\ Extra \notin Worker
  /\ UmemMode \in {"first-thread", "extra-thread"}
  /\ QueueSize \in Nat
  /\ RingCap \in Nat
  /\ Timeout \in Nat
  /\ IntBits \in Nat \ {0}
  /\ Cardinality(Frame) <= QueueSize
  /\ Cardinality(Frame) <= RingCap
  /\ Faulty \subseteq Worker
  /\ CtrlC \in BOOLEAN

VARIABLES
  fq,         \* fill queue: descriptors the kernel may receive into
  cq,         \* completion queue: descriptors whose transmission is done
  rx,         \* rx queue of each socket
  tx,         \* tx queue of each socket, in-flight transmissions included
  ring,       \* unread descriptors in the ring each worker sends into
  stale,      \* slots of that ring the mediator has read but not released
  frames,     \* xsk.frames[..pkts_recvd]: the batch a thread works on
  i,          \* loop index of dataplane_core
  numTx,      \* num_tx of dataplane_core
  verdict,    \* what the walk over the network functions said of a frame
  pc,         \* where each thread is in its loop
  todo,       \* rings the mediator has still to visit in this round
  killed      \* whether main has broadcast on the bus

queues  == <<fq, cq, rx, tx>>
rings   == <<ring, stale, todo>>
batches == <<frames, i, numTx, verdict>>
vars    == <<queues, rings, batches, pc, killed>>

FrameCount == Cardinality(Frame)
Thread     == Worker \union {Extra}

\* The thread that owns xsks[0].mediate, and those given a ring to send into.
Mediator == IF UmemMode = "extra-thread" THEN Extra ELSE First
Sender   == Worker \ {Mediator}

Empty(f, t) == [f EXCEPT ![t] = <<>>]

(***************************************************************************)
(* The queue operations of xsk-rs, as the code uses them.                  *)
(***************************************************************************)

\* produce: all of s, or none of it when there is not room for all of s.
\* No caller looks at the count produce returns.
Produce(q, s) == IF Len(q) + Len(s) <= QueueSize THEN q \o s ELSE q

\* consume: how many entries it may return.  It looks at the kernel's index
\* again only once the entries it already knows of are used up, so it may
\* return fewer than there are, but never none when there are some.
Consumable(q, room) ==
  {n \in 0..Len(q) : n <= room /\ (n = 0 => q = <<>> \/ room = 0)}

Taken(q, n) == SubSeq(q, 1, n)
After(q, n) == SubSeq(q, n + 1, Len(q))
-----------------------------------------------------------------------------
\* create_upcall_sockets hands all descriptors to the fill queue; only the
\* first socket of a UMEM gets its fill and completion queue.
Init ==
  /\ fq \in [1..FrameCount -> Frame]
  /\ \A f \in Frame : \E k \in 1..FrameCount : fq[k] = f
  /\ \A k, l \in 1..FrameCount : fq[k] = fq[l] => k = l
  /\ cq = <<>>
  /\ rx = [t \in Thread |-> <<>>]
  /\ tx = [t \in Thread |-> <<>>]
  /\ ring = [t \in Thread |-> <<>>]
  /\ stale = [t \in Thread |-> 0]
  /\ frames = [t \in Thread |-> <<>>]
  /\ i = [t \in Thread |-> 0]
  /\ numTx = [t \in Thread |-> 0]
  /\ verdict = [t \in Thread |-> [f \in Frame |-> "none"]]
  /\ pc = [t \in Thread |-> IF t \in Worker THEN "top"
                            ELSE IF t = Mediator THEN "drain" ELSE "stopped"]
  /\ todo = IF Mediator = Extra THEN Sender ELSE {}
  /\ killed = FALSE

Goto(t, label) == pc' = [pc EXCEPT ![t] = label]

(***************************************************************************)
(* The kernel.                                                             *)
(***************************************************************************)

\* A packet is redirected to the socket of t and lands in a free frame.
KernelRx(t) ==
  /\ fq # <<>>
  /\ pc[t] \notin {"stopped", "dead"}
  /\ Len(rx[t]) < QueueSize
  /\ rx' = [rx EXCEPT ![t] = Append(@, Head(fq))]
  /\ fq' = Tail(fq)
  /\ UNCHANGED <<cq, tx, rings, batches, pc, killed>>

\* A frame has been sent; its descriptor is posted on the completion queue.
KernelTx(t) ==
  /\ tx[t] # <<>>
  /\ Len(cq) < QueueSize
  /\ cq' = Append(cq, Head(tx[t]))
  /\ tx' = [tx EXCEPT ![t] = Tail(@)]
  /\ UNCHANGED <<fq, rx, rings, batches, pc, killed>>

(***************************************************************************)
(* dataplane_core: receive a batch, walk every frame once, and partition   *)
(* the batch in place so that the frames to send come first.               *)
(***************************************************************************)

\* timeout as i32: poll never gives up when this is negative.
AsInt(n) ==
  LET low == n % 2^IntBits
  IN  IF low < 2^(IntBits - 1) THEN low ELSE low - 2^IntBits

TimesOut == AsInt(Timeout) >= 0

\* kill_rx.try_recv found nothing and poll finds nothing: without a timeout
\* the thread sleeps until a packet comes.
Sleep(t) ==
  /\ t \in Worker
  /\ pc[t] = "top"
  /\ ~killed
  /\ rx[t] = <<>>
  /\ ~TimesOut
  /\ Goto(t, "asleep")
  /\ UNCHANGED <<queues, rings, batches, killed>>

\* kill_rx.try_recv, then poll_and_consume into the whole of xsk.frames, which
\* also is where a sleeping thread goes on.
Poll(t) ==
  /\ t \in Worker
  /\ pc[t] \in {"top", "asleep"}
  /\ pc[t] = "top" => ~killed
  /\ rx[t] # <<>> \/ TimesOut
  /\ \E n \in Consumable(rx[t], FrameCount) :
       /\ frames' = [frames EXCEPT ![t] = Taken(rx[t], n)]
       /\ rx' = [rx EXCEPT ![t] = After(@, n)]
       /\ numTx' = [numTx EXCEPT ![t] = n]
  /\ Goto(t, "core")
  /\ UNCHANGED <<fq, cq, tx, rings, i, verdict, killed>>

\* The walk ended in LinkAction::Tx: leave the frame in the Tx block.
Keep(t) ==
  /\ pc[t] = "core"
  /\ i[t] < numTx[t]
  /\ verdict' = [verdict EXCEPT ![t][frames[t][i[t] + 1]] = "tx"]
  /\ i' = [i EXCEPT ![t] = @ + 1]
  /\ UNCHANGED <<queues, rings, frames, numTx, pc, killed>>

Swap(s, k, l) == [s EXCEPT ![k] = s[l], ![l] = s[k]]

\* Mutant: the index moves on although another frame was swapped into its place.
MutDiscard(t) ==
  /\ pc[t] = "core"
  /\ i[t] < numTx[t]
  /\ verdict' = [verdict EXCEPT ![t][frames[t][i[t] + 1]] = "drop"]
  /\ numTx' = [numTx EXCEPT ![t] = @ - 1]
  /\ frames' = [frames EXCEPT ![t] = Swap(@, i[t] + 1, numTx[t])]
  /\ i' = [i EXCEPT ![t] = @ + 1]
  /\ UNCHANGED <<queues, rings, pc, killed>>

\* Any other outcome, or a frame without the 8 bytes of metadata: swap the
\* frame with the last one of the Tx block and shrink that block.
Discard(t) ==
  /\ pc[t] = "core"
  /\ i[t] < numTx[t]
  /\ verdict' = [verdict EXCEPT ![t][frames[t][i[t] + 1]] = "drop"]
  /\ numTx' = [numTx EXCEPT ![t] = @ - 1]
  /\ frames' = [frames EXCEPT ![t] = Swap(@, i[t] + 1, numTx[t])]
  /\ UNCHANGED <<queues, rings, i, pc, killed>>

\* num_tx and pkts_recvd go out of scope, and with them the batch.
ForgetBatch(t) ==
  /\ frames' = Empty(frames, t)
  /\ i' = [i EXCEPT ![t] = 0]
  /\ numTx' = [numTx EXCEPT ![t] = 0]
  /\ verdict' = [verdict EXCEPT ![t] = [f \in Frame |-> "none"]]

\* Dropping XskData closes the socket: what its queues held is gone.
CloseSocket(t) ==
  /\ rx' = Empty(rx, t)
  /\ tx' = Empty(tx, t)

\* The unwrap of poll_and_consume (at the top of the loop, or asleep in it), an
\* unwrap of the walk or the network function itself, or the unwrap of
\* produce_and_wakeup panics: the thread unwinds and nobody joins it.
Panic(t) ==
  /\ t \in Faulty
  /\ pc[t] \in {"top", "asleep", "core"}
  /\ pc[t] = "top" => ~killed
  /\ ForgetBatch(t)
  /\ CloseSocket(t)
  /\ Goto(t, "dead")
  /\ UNCHANGED <<fq, cq, rings, killed>>

(***************************************************************************)
(* The loop bodies after dataplane_core.                                   *)
(***************************************************************************)

\* xsk.tx.produce_and_wakeup(&xsk.frames[..num_tx])
Send(t) ==
  /\ pc[t] = "core"
  /\ i[t] = numTx[t]
  /\ tx' = [tx EXCEPT ![t] = Produce(@, Taken(frames[t], numTx[t]))]
  /\ Goto(t, "return")
  /\ UNCHANGED <<fq, cq, rx, rings, batches, killed>>

\* push_slice accepts as many descriptors as the ring has room for.
PushSlice(t, s) ==
  LET room == RingCap - stale[t] - Len(ring[t])
  IN  Taken(s, IF Len(s) <= room THEN Len(s) ELSE room)

\* Mutant: the last descriptor of the batch is left out.
MutPush(t) ==
  /\ t \in Sender
  /\ pc[t] = "return"
  /\ ring' = [ring EXCEPT ![t] =
                @ \o PushSlice(t, SubSeq(frames[t], numTx[t] + 1, Len(frames[t]) - 1))]
  /\ ForgetBatch(t)
  /\ Goto(t, "top")
  /\ UNCHANGED <<queues, stale, todo, killed>>

\* dataplane_other_mediate: fd_sender.push_slice(&xsk.frames[num_tx..pkts_recvd])
Push(t) ==
  /\ t \in Sender
  /\ pc[t] = "return"
  /\ ring' = [ring EXCEPT ![t] = @ \o PushSlice(t, After(frames[t], numTx[t]))]
  /\ ForgetBatch(t)
  /\ Goto(t, "top")
  /\ UNCHANGED <<queues, stale, todo, killed>>

\* Mutant: completions are collected only when the batch held packets.
MutComplete(t) ==
  /\ t = Mediator
  /\ pc[t] = "return"
  /\ \E n \in IF frames[t] = <<>> THEN {0}
              ELSE Consumable(cq, FrameCount - Len(frames[t])) :
       /\ frames' = [frames EXCEPT ![t] = @ \o Taken(cq, n)]
       /\ cq' = After(cq, n)
  /\ Goto(t, "refill")
  /\ UNCHANGED <<fq, rx, tx, rings, i, numTx, verdict, killed>>

\* mediate.cq.consume(&mut xsk.frames[pkts_recvd..])
Complete(t) ==
  /\ t = Mediator
  /\ pc[t] = "return"
  /\ \E n \in Consumable(cq, FrameCount - Len(frames[t])) :
       /\ frames' = [frames EXCEPT ![t] = @ \o Taken(cq, n)]
       /\ cq' = After(cq, n)
  /\ Goto(t, "refill")
  /\ UNCHANGED <<fq, rx, tx, rings, i, numTx, verdict, killed>>

\* Mutant: the mediator also lists itself among the rings to visit.
MutRefillSelf(t) ==
  /\ t = Mediator
  /\ pc[t] = "refill"
  /\ fq' = Produce(fq, After(frames[t], numTx[t]))
  /\ ForgetBatch(t)
  /\ IF t = First
     THEN Goto(t, "drain") /\ todo' = Worker
     ELSE Goto(t, "top")   /\ UNCHANGED todo
  /\ UNCHANGED <<cq, rx, tx, ring, stale, killed>>

\* mediate.fq.produce(&xsk.frames[num_tx..pkts_recvd + additional_pkts]);
\* then thread 0 turns to the rings, the disposal thread to the bus.
Refill(t) ==
  /\ t = Mediator
  /\ pc[t] = "refill"
  /\ fq' = Produce(fq, After(frames[t], numTx[t]))
  /\ ForgetBatch(t)
  /\ IF t = First
     THEN Goto(t, "drain") /\ todo' = Sender
     ELSE Goto(t, "top")   /\ UNCHANGED todo
  /\ UNCHANGED <<cq, rx, tx, ring, stale, killed>>

(***************************************************************************)
(* The mediator empties the rings of the other threads.                    *)
(***************************************************************************)

\* ring.len() == 0: continue
SkipRing(s) ==
  /\ pc[Mediator] = "drain"
  /\ s \in todo
  /\ ring[s] = <<>>
  /\ todo' = todo \ {s}
  /\ UNCHANGED <<queues, ring, stale, batches, pc, killed>>

\* Mutant: the slots are not advanced past, so they are read again.
MutDrainRing(s) ==
  /\ pc[Mediator] = "drain"
  /\ s \in todo
  /\ ring[s] # <<>>
  /\ \E k \in 1..Len(ring[s]) :
       fq' = Produce(Produce(fq, Taken(ring[s], k)), After(ring[s], k))
  /\ stale' = [stale EXCEPT ![s] = Len(ring[s])]
  /\ Goto(Mediator, "advance")
  /\ UNCHANGED <<cq, rx, tx, ring, todo, batches, killed>>

\* as_slices, split at k where the ring wraps, and both slices produced.
\* The slots stay occupied until the ring is advanced.
DrainRing(s) ==
  /\ pc[Mediator] = "drain"
  /\ s \in todo
  /\ ring[s] # <<>>
  /\ \E k \in 1..Len(ring[s]) :
       fq' = Produce(Produce(fq, Taken(ring[s], k)), After(ring[s], k))
  /\ ring' = Empty(ring, s)
  /\ stale' = [stale EXCEPT ![s] = Len(ring[s])]
  /\ Goto(Mediator, "advance")
  /\ UNCHANGED <<cq, rx, tx, todo, batches, killed>>

\* ring.advance(this_handled)
AdvanceRing(s) ==
  /\ pc[Mediator] = "advance"
  /\ s \in todo
  /\ stale[s] > 0
  /\ stale' = [stale EXCEPT ![s] = 0]
  /\ todo' = todo \ {s}
  /\ Goto(Mediator, "drain")
  /\ UNCHANGED <<queues, ring, batches, killed>>

\* Mutant: the disposal thread never turns to the completion queue.
MutEndDrain ==
  /\ pc[Mediator] = "drain"
  /\ todo = {}
  /\ Goto(Mediator, "top")
  /\ UNCHANGED <<queues, rings, batches, killed>>

\* All rings visited: thread 0 loops, the disposal thread looks at the
\* completion queue.
EndDrain ==
  /\ pc[Mediator] = "drain"
  /\ todo = {}
  /\ Goto(Mediator, IF Mediator = First THEN "top" ELSE "return")
  /\ UNCHANGED <<queues, rings, batches, killed>>

\* Mutant: the disposal thread does not look at the bus.
MutExtraLoop ==
  /\ Mediator = Extra
  /\ pc[Extra] = "top"
  /\ todo' = Sender
  /\ Goto(Extra, "drain")
  /\ UNCHANGED <<queues, ring, stale, batches, killed>>

\* The disposal thread found nothing on the bus: next round.
ExtraLoop ==
  /\ Mediator = Extra
  /\ pc[Extra] = "top"
  /\ ~killed
  /\ todo' = Sender
  /\ Goto(Extra, "drain")
  /\ UNCHANGED <<queues, ring, stale, batches, killed>>

(***************************************************************************)
(* Shutdown.                                                               *)
(***************************************************************************)

\* ctrl_c().await returned; bus.broadcast(())
Kill ==
  /\ CtrlC
  /\ ~killed
  /\ killed' = TRUE
  /\ UNCHANGED <<queues, rings, batches, pc>>

\* A thread finds the message and leaves its loop.
Stop(t) ==
  /\ pc[t] = "top"
  /\ killed
  /\ CloseSocket(t)
  /\ Goto(t, "stopped")
  /\ UNCHANGED <<fq, cq, rings, batches, killed>>
-----------------------------------------------------------------------------
Batch(t) == Sleep(t) \/ Poll(t) \/ Keep(t) \/ Discard(t) \/ Send(t)
Credit(t) == Push(t) \/ Complete(t) \/ Refill(t)

Drain == EndDrain \/ \E s \in Sender : SkipRing(s) \/ DrainRing(s) \/ AdvanceRing(s)

Next ==
  \/ \E t \in Worker : KernelRx(t) \/ KernelTx(t) \/ Panic(t)
  \/ \E t \in Thread : Batch(t) \/ Credit(t) \/ Stop(t)
  \/ Drain
  \/ ExtraLoop
  \/ Kill

Spec == Init /\ [][Next]_vars

\* Threads are scheduled, and a frame given to the device is sent; packets
\* need not arrive, nothing need panic and nobody need press ctrl+c.
Fairness ==
  /\ \A t \in Thread : WF_vars(Batch(t) \/ Credit(t) \/ Stop(t))
  /\ WF_vars(Drain \/ ExtraLoop)
  /\ \A t \in Worker : WF_vars(KernelTx(t))

FairSpec == Spec /\ Fairness
-----------------------------------------------------------------------------
(***************************************************************************)
(* Where a descriptor can be.  A batch stops owning what it transmitted    *)
(* once produce_and_wakeup has run, although xsk.frames still lists it.    *)
(***************************************************************************)
Own(t) ==
  After(frames[t], IF pc[t] \in {"return", "refill"} THEN numTx[t] ELSE 0)

Place == {"fq", "cq", "rx", "tx", "ring", "own"} \X Thread

Held ==
  [p \in Place |->
     CASE p[1] = "fq"   -> IF p[2] = Mediator THEN fq ELSE <<>>
       [] p[1] = "cq"   -> IF p[2] = Mediator THEN cq ELSE <<>>
       [] p[1] = "rx"   -> rx[p[2]]
       [] p[1] = "tx"   -> tx[p[2]]
       [] p[1] = "ring" -> ring[p[2]]
       [] OTHER         -> Own(p[2])]

Label == {"top", "asleep", "core", "return", "refill", "drain", "advance", "stopped", "dead"}

\* The types of the queues, the rings and each thread's position in its loop.
TypeOK ==
  /\ fq \in Seq(Frame)
  /\ cq \in Seq(Frame)
  /\ rx \in [Thread -> Seq(Frame)]
  /\ tx \in [Thread -> Seq(Frame)]
  /\ ring \in [Thread -> Seq(Frame)]
  /\ stale \in [Thread -> Nat]
  /\ frames \in [Thread -> Seq(Frame)]
  /\ i \in [Thread -> Nat]
  /\ numTx \in [Thread -> Nat]
  /\ verdict \in [Thread -> [Frame -> {"none", "tx", "drop"}]]
  /\ pc \in [Thread -> Label]
  /\ todo \subseteq Sender
  /\ killed \in BOOLEAN

\* A descriptor is never in two places, nor twice in one: no credit is
\* returned twice, and the kernel never receives into a frame that some
\* thread is reading or that still waits to be sent.
Exclusive ==
  \A p \in Place : \A k \in 1..Len(Held[p]) :
    \A q \in Place : \A l \in 1..Len(Held[q]) :
      Held[p][k] = Held[q][l] => p = q /\ k = l

\* The counts that produce and produce_and_wakeup return may be ignored: when
\* a thread is about to call one of them, everything it passes is accepted.
ProduceFits ==
  /\ \A t \in Worker :
       pc[t] = "core" => Len(tx[t]) + numTx[t] <= QueueSize
  /\ \A t \in Thread :
       t = Mediator /\ pc[t] = "refill" => Len(fq) + Len(Own(t)) <= QueueSize
  /\ \A s \in todo :
       pc[Mediator] = "drain" => Len(fq) + Len(ring[s]) <= QueueSize

\* The in-place partition of dataplane_core: every frame received is walked
\* exactly once, the Tx block ends up as exactly the frames whose walk said
\* Tx, and exactly the others are returned.
BatchPartition ==
  \A t \in Worker : pc[t] \in {"core", "return"} =>
    /\ i[t] <= numTx[t]
    /\ numTx[t] <= Len(frames[t])
    /\ pc[t] = "return" => i[t] = numTx[t]
    /\ \A k \in 1..Len(frames[t]) :
         verdict[t][frames[t][k]] = IF k <= i[t] THEN "tx"
                                    ELSE IF k <= numTx[t] THEN "none" ELSE "drop"

\* The descriptors of a place, and those that some thread or queue still knows.
Entries(p) == {Held[p][k] : k \in 1..Len(Held[p])}
Known      == UNION {Entries(p) : p \in Place}

\* No descriptor is lost while every thread runs: the credit of every frame
\* that was dropped, or that the kernel has finished with, is somewhere on
\* its way back to the fill queue.
NoLeak ==
  ~killed /\ (\A t \in Worker : pc[t] # "dead") => Frame \subseteq Known

\* The descriptors a step loses, and the two kinds of step that may: a thread
\* leaves its loop, or pushes into its ring.
Losing    == Known \ Known'
Leaves(t) == pc[t] \notin {"stopped", "dead"} /\ pc'[t] \in {"stopped", "dead"}
Pushes(t) == t \in Sender /\ pc[t] = "return" /\ pc'[t] = "top"

\* What t held, and why it may go missing.
LossExcused ==
  \E t \in Thread :
    /\ Losing \subseteq UNION {Entries(<<kind, t>>) : kind \in {"rx", "tx", "own"}}
    /\ Leaves(t) \/ (Pushes(t) /\ Cardinality(Losing) <= stale[t])

\* What is lost, and how: a descriptor goes missing only with the socket or the
\* batch of a thread that stops or panics, or when push_slice finds slots that
\* the mediator has read and not advanced past yet, and then no more of them
\* than there are such slots.  Nothing a thread does ever loses a descriptor
\* that another thread or one of the shared queues holds.
LossExplained == [][Losing # {} => LossExcused]_vars

Returned(f) == \E k \in 1..Len(fq) : fq[k] = f

\* A descriptor that is not lost comes back to the fill queue again and again,
\* whatever panics happen in the other threads, as long as the mediator runs.
NeverStuck ==
  \A f \in Frame : []<>(Returned(f) \/ f \notin Known \/ killed \/ pc[Mediator] = "dead")

\* A descriptor that reached a ring or the completion queue is handed back to
\* the fill queue, whatever panics happen in the worker threads meanwhile,
\* unless the program is told to stop.
CreditReturned ==
  \A f \in Frame :
    (\/ \E k \in 1..Len(cq) : cq[k] = f
     \/ \E s \in Sender : \E k \in 1..Len(ring[s]) : ring[s][k] = f)
      ~> (Returned(f) \/ killed)

\* After the broadcast every thread leaves its loop.  Only one that sleeps in a
\* poll without a timeout, and gets no packet, does not.
StopsOnKill == killed ~> \A t \in Thread : pc[t] \in {"stopped", "dead", "asleep"}
=============================================================================
