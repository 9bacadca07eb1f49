----------------------------- MODULE UmemProofs -----------------------------
(***************************************************************************)
(* Theorems about Umem, for every UMEM, every set of threads and every     *)
(* ring with as many slots as the UMEM has descriptors.  The inductive     *)
(* invariant is TypeOK, Shape, Exclusive and Walked; ProduceFits and       *)
(* BatchPartition follow from it.  What a step may lose follows from the   *)
(* four kinds of step that NextMoves tells apart.                          *)
(***************************************************************************)
EXTENDS Umem, FiniteSetTheorems, TLAPS

\* The first n entries of a sequence.
LEMMA TakenFacts ==
  ASSUME NEW S, NEW s \in Seq(S), NEW n \in 0..Len(s)
  PROVE  /\ Taken(s, n) \in Seq(S)
         /\ Len(Taken(s, n)) = n
         /\ \A k \in 1..n : Taken(s, n)[k] = s[k]
BY DEF Taken

\* The entries of a sequence after the first n.
LEMMA AfterFacts ==
  ASSUME NEW S, NEW s \in Seq(S), NEW n \in 0..Len(s)
  PROVE  /\ After(s, n) \in Seq(S)
         /\ Len(After(s, n)) = Len(s) - n
         /\ \A k \in 1..(Len(s) - n) : After(s, n)[k] = s[k + n]
BY DEF After

\* The entries of a concatenation.
LEMMA ConcatFacts ==
  ASSUME NEW S, NEW s \in Seq(S), NEW r \in Seq(S)
  PROVE  /\ s \o r \in Seq(S)
         /\ Len(s \o r) = Len(s) + Len(r)
         /\ \A k \in 1..Len(s) : (s \o r)[k] = s[k]
         /\ \A k \in 1..Len(r) : (s \o r)[Len(s) + k] = r[k]
OBVIOUS

\* frames.swap(k, l) exchanges two entries and nothing else.
LEMMA SwapFacts ==
  ASSUME NEW S, NEW s \in Seq(S), NEW k \in 1..Len(s), NEW l \in 1..Len(s)
  PROVE  /\ Swap(s, k, l) \in Seq(S)
         /\ Len(Swap(s, k, l)) = Len(s)
         /\ \A j \in 1..Len(s) :
              Swap(s, k, l)[j] = IF j = l THEN s[k] ELSE IF j = k THEN s[l] ELSE s[j]
BY DEF Swap

\* Producing descriptors into a queue leaves a queue of descriptors.
LEMMA ProduceFacts ==
  ASSUME NEW S, NEW q \in Seq(S), NEW s \in Seq(S)
  PROVE  Produce(q, s) \in Seq(S)
BY DEF Produce

\* Nothing is left after all entries.
LEMMA AfterAll ==
  ASSUME NEW S, NEW s \in Seq(S)
  PROVE  After(s, Len(s)) = <<>> /\ Len(s) \in 0..Len(s)
BY DEF After

\* Sequences with the same entries are the same.
LEMMA SameSeq ==
  ASSUME NEW S, NEW s \in Seq(S), NEW r \in Seq(S), Len(s) = Len(r),
         \A k \in 1..Len(s) : s[k] = r[k]
  PROVE  s = r
OBVIOUS

\* Dropping entries of the first part of a concatenation.
LEMMA AfterConcat ==
  ASSUME NEW S, NEW s \in Seq(S), NEW r \in Seq(S), NEW n \in 0..Len(s)
  PROVE  After(s \o r, n) = After(s, n) \o r
<1> DEFINE z == s \o r
           y == After(s, n)
<1>1. Len(s) \in Nat /\ Len(r) \in Nat /\ n \in Nat /\ n <= Len(s)
  OBVIOUS
<1>2. /\ z \in Seq(S) /\ Len(z) = Len(s) + Len(r)
      /\ \A k \in 1..Len(s) : z[k] = s[k]
      /\ \A k \in 1..Len(r) : z[Len(s) + k] = r[k]
  BY ConcatFacts
<1>3. /\ y \in Seq(S)
      /\ Len(y) = Len(s) - n
      /\ \A k \in 1..(Len(s) - n) : y[k] = s[k + n]
  BY AfterFacts
<1>s. y \in Seq(S)
  BY <1>3
<1> HIDE DEF y, z
<1>4. n \in 0..Len(z)
  BY <1>1, <1>2
<1>5. /\ After(z, n) \in Seq(S)
      /\ Len(After(z, n)) = Len(z) - n
      /\ \A k \in 1..(Len(z) - n) : After(z, n)[k] = z[k + n]
  BY ONLY <1>2, <1>4, AfterFacts
<1>6. /\ y \o r \in Seq(S)
      /\ Len(y \o r) = Len(y) + Len(r)
      /\ \A k \in 1..Len(y) : (y \o r)[k] = y[k]
      /\ \A k \in 1..Len(r) : (y \o r)[Len(y) + k] = r[k]
  BY ONLY <1>s, r \in Seq(S)
<1>7. Len(After(z, n)) = Len(y \o r)
  BY <1>1, <1>2, <1>3, <1>5, <1>6
<1>8. ASSUME NEW k \in 1..Len(After(z, n)) PROVE After(z, n)[k] = (y \o r)[k]
  <2>1. k \in Nat /\ k >= 1 /\ k <= Len(s) + Len(r) - n
    BY <1>1, <1>2, <1>5
  <2>2. After(z, n)[k] = z[k + n]
    BY <1>5
  <2>3. CASE k <= Len(s) - n
    <3>1. k \in 1..Len(y) /\ k \in 1..(Len(s) - n) /\ k + n \in 1..Len(s)
      BY <1>1, <1>3, <2>1, <2>3
    <3> QED
      BY ONLY <1>2, <1>3, <1>6, <2>2, <3>1
  <2>4. CASE ~(k <= Len(s) - n)
    <3>0. k - (Len(s) - n) \in 1..Len(r)
      BY <1>1, <2>1, <2>4
    <3>1. PICK j \in 1..Len(r) : j = k - (Len(s) - n)
      BY ONLY <3>0
    <3>2. k + n = Len(s) + j /\ k = Len(y) + j
      BY <1>1, <1>3, <2>1, <3>1
    <3> QED
      BY ONLY <1>2, <1>6, <2>2, <3>1, <3>2
  <2> QED
    BY <2>3, <2>4
<1>9. After(z, n) = y \o r
  BY ONLY <1>5, <1>6, <1>7, <1>8, SameSeq
<1> QED
  BY <1>9 DEF y, z

\* Concatenation is associative.
LEMMA ConcatAssociative ==
  ASSUME NEW S, NEW s \in Seq(S), NEW r \in Seq(S), NEW q \in Seq(S)
  PROVE  (s \o r) \o q = s \o (r \o q)
OBVIOUS

\* push_slice accepts a prefix of what it is given.
LEMMA PushSliceFacts ==
  ASSUME NEW t \in Thread, NEW s \in Seq(Frame), ring[t] \in Seq(Frame), stale[t] \in Nat
  PROVE  /\ PushSlice(t, s) \in Seq(Frame)
         /\ Len(PushSlice(t, s)) <= Len(s)
         /\ \A k \in 1..Len(PushSlice(t, s)) : PushSlice(t, s)[k] = s[k]
<1> DEFINE room == RingCap - stale[t] - Len(ring[t])
<1>1. room \in Int
  BY UmemAssumption
<1>2. CASE Len(s) <= room
  BY <1>2, TakenFacts DEF PushSlice
<1>3. CASE ~(Len(s) <= room) /\ room >= 0
  <2>1. room \in 0..Len(s)
    BY <1>1, <1>3
  <2> QED
    BY <1>3, <2>1, TakenFacts DEF PushSlice
<1>4. CASE ~(Len(s) <= room) /\ room < 0
  <2>1. Taken(s, room) = <<>>
    BY <1>1, <1>4 DEF Taken
  <2>2. PushSlice(t, s) = <<>>
    BY <1>4, <2>1 DEF PushSlice
  <2> QED
    BY <2>2
<1> QED
  BY <1>1, <1>2, <1>3, <1>4

\* Emptying one sequence of a function of sequences.
LEMMA EmptyFacts ==
  ASSUME NEW T, NEW S, NEW f \in [T -> Seq(S)], NEW t \in T
  PROVE  /\ Empty(f, t) \in [T -> Seq(S)]
         /\ Empty(f, t)[t] = <<>>
         /\ \A u \in T \ {t} : Empty(f, t)[u] = f[u]
BY DEF Empty

\* Which threads there are, and which of them have a ring.
LEMMA TaskFacts ==
  /\ Mediator \in Thread
  /\ Sender \subseteq Worker
  /\ Mediator \notin Sender
  /\ Worker \subseteq Thread
  /\ First \in Worker
  /\ Extra \notin Worker
  /\ Extra \in Thread
BY UmemAssumption DEF Mediator, Sender, Thread

Busy == {"core", "return", "refill"}

\* How a thread's position bounds its batch.
Shape ==
  \A t \in Thread :
    /\ pc[t] \in Busy => i[t] <= numTx[t] /\ numTx[t] <= Len(frames[t])
    /\ pc[t] \notin Busy =>
         /\ frames[t] = <<>>
         /\ i[t] = 0
         /\ numTx[t] = 0
         /\ verdict[t] = [f \in Frame |-> "none"]
    /\ pc[t] = "core" => t \in Worker
    /\ pc[t] = "return" => i[t] = numTx[t]
    /\ pc[t] \in {"refill", "drain", "advance"} => t = Mediator

\* The shape of the initial batches: there are none.
LEMMA InitShape == Init => TypeOK /\ Shape
<1> SUFFICES ASSUME Init PROVE TypeOK /\ Shape
  OBVIOUS
<1>1. FrameCount \in Nat
  BY UmemAssumption, FS_CardinalityType DEF FrameCount
<1>2. fq \in Seq(Frame)
  BY <1>1 DEF Init
<1>3. todo \subseteq Sender
  BY DEF Init
<1>4. verdict \in [Thread -> [Frame -> {"none", "tx", "drop"}]]
  BY DEF Init
<1>5. pc \in [Thread -> Label]
  BY DEF Init, Label
<1>6. /\ cq \in Seq(Frame)
      /\ rx \in [Thread -> Seq(Frame)]
      /\ tx \in [Thread -> Seq(Frame)]
      /\ ring \in [Thread -> Seq(Frame)]
      /\ frames \in [Thread -> Seq(Frame)]
  BY DEF Init
<1>7. /\ stale \in [Thread -> Nat]
      /\ i \in [Thread -> Nat]
      /\ numTx \in [Thread -> Nat]
      /\ killed \in BOOLEAN
  BY DEF Init
<1>8. TypeOK
  BY <1>2, <1>3, <1>4, <1>5, <1>6, <1>7 DEF TypeOK
<1>9. Shape
  BY TaskFacts DEF Init, Shape, Busy
<1> QED
  BY <1>8, <1>9

\* Every step keeps the types and the shape of the batches.
LEMMA NextShape == TypeOK /\ Shape /\ [Next]_vars => TypeOK' /\ Shape'
<1> SUFFICES ASSUME TypeOK, Shape, [Next]_vars PROVE TypeOK' /\ Shape'
  OBVIOUS
<1> USE TaskFacts
<1>1. ASSUME NEW t \in Worker, KernelRx(t) PROVE TypeOK' /\ Shape'
  <2>0. fq \in Seq(Frame) /\ fq # <<>> /\ rx[t] \in Seq(Frame)
    BY <1>1 DEF KernelRx, TypeOK
  <2>1. Head(fq) \in Frame /\ Tail(fq) \in Seq(Frame) /\ rx[t] \in Seq(Frame)
    BY ONLY <2>0
  <2>2. fq' \in Seq(Frame) /\ rx' \in [Thread -> Seq(Frame)]
    BY <1>1, <2>1 DEF KernelRx, TypeOK
  <2>3. TypeOK'
    BY <1>1, <2>2 DEF KernelRx, TypeOK, rings, batches
  <2>4. Shape'
    BY <1>1 DEF KernelRx, Shape, batches
  <2> QED
    BY <2>3, <2>4
<1>2. ASSUME NEW t \in Worker, KernelTx(t) PROVE TypeOK' /\ Shape'
  <2>1. tx[t] \in Seq(Frame)
    BY <1>2 DEF TypeOK
  <2>2. Head(tx[t]) \in Frame /\ Tail(tx[t]) \in Seq(Frame)
    BY <1>2, <2>1 DEF KernelTx
  <2>3. cq' \in Seq(Frame) /\ tx' \in [Thread -> Seq(Frame)]
    BY <1>2, <2>2 DEF KernelTx, TypeOK
  <2>4. TypeOK'
    BY <1>2, <2>3 DEF KernelTx, TypeOK, rings, batches
  <2>5. Shape'
    BY <1>2 DEF KernelTx, Shape, batches
  <2> QED
    BY <2>4, <2>5
<1>f. ASSUME NEW t \in Thread, ForgetBatch(t)
      PROVE  /\ frames' \in [Thread -> Seq(Frame)]
             /\ i' \in [Thread -> Nat]
             /\ numTx' \in [Thread -> Nat]
             /\ verdict' \in [Thread -> [Frame -> {"none", "tx", "drop"}]]
  <2>1. frames' \in [Thread -> Seq(Frame)]
    BY <1>f DEF ForgetBatch, Empty, TypeOK
  <2>2. i' \in [Thread -> Nat] /\ numTx' \in [Thread -> Nat]
    BY <1>f DEF ForgetBatch, TypeOK
  <2>3. verdict' \in [Thread -> [Frame -> {"none", "tx", "drop"}]]
    BY <1>f DEF ForgetBatch, TypeOK
  <2> QED
    BY <2>1, <2>2, <2>3
<1>g. ASSUME NEW t \in Thread, ForgetBatch(t), NEW l \in Label \ Busy, Goto(t, l),
             l \in {"refill", "drain", "advance"} => t = Mediator
      PROVE  Shape'
  BY <1>g DEF ForgetBatch, Empty, Goto, TypeOK, Shape, Busy
<1>h. ASSUME NEW t \in Thread, NEW l \in Label, Goto(t, l)
      PROVE  pc' \in [Thread -> Label]
  BY <1>h DEF Goto, TypeOK
<1>3. ASSUME NEW t \in Worker, Panic(t) PROVE TypeOK' /\ Shape'
  <2>1. rx' \in [Thread -> Seq(Frame)] /\ tx' \in [Thread -> Seq(Frame)]
    BY <1>3, EmptyFacts DEF Panic, CloseSocket, TypeOK
  <2>2. "dead" \in Label \ Busy /\ "dead" \notin {"refill", "drain", "advance"}
    BY DEF Label, Busy
  <2>3. ForgetBatch(t) /\ Goto(t, "dead")
    BY <1>3 DEF Panic
  <2>4. Shape'
    BY <1>g, <2>2, <2>3
  <2>5. TypeOK'
    BY <1>3, <1>f, <1>h, <2>1, <2>2, <2>3 DEF Panic, TypeOK, rings
  <2> QED
    BY <2>4, <2>5
<1>4. ASSUME NEW t \in Thread, Poll(t) PROVE TypeOK' /\ Shape'
  <2>1. PICK n \in Consumable(rx[t], FrameCount) :
          /\ frames' = [frames EXCEPT ![t] = Taken(rx[t], n)]
          /\ rx' = [rx EXCEPT ![t] = After(rx[t], n)]
          /\ numTx' = [numTx EXCEPT ![t] = n]
    BY <1>4 DEF Poll
  <2>2. n \in 0..Len(rx[t]) /\ rx[t] \in Seq(Frame) /\ n \in Nat
    BY <2>1 DEF Consumable, TypeOK
  <2>3. /\ Taken(rx[t], n) \in Seq(Frame)
        /\ Len(Taken(rx[t], n)) = n
        /\ After(rx[t], n) \in Seq(Frame)
    BY <2>2, TakenFacts, AfterFacts
  <2>4. /\ frames' \in [Thread -> Seq(Frame)]
        /\ rx' \in [Thread -> Seq(Frame)]
        /\ numTx' \in [Thread -> Nat]
    BY <2>1, <2>2, <2>3 DEF TypeOK
  <2>5. pc' \in [Thread -> Label]
    BY <1>4, <1>h DEF Poll, Label
  <2>6. TypeOK'
    BY <1>4, <2>4, <2>5 DEF Poll, TypeOK, rings
  <2>7. i[t] = 0 /\ t \in Worker
    BY <1>4 DEF Poll, Shape, Busy
  <2>8. /\ frames'[t] = Taken(rx[t], n) /\ numTx'[t] = n /\ i'[t] = 0 /\ pc'[t] = "core"
        /\ \A u \in Thread \ {t} :
             UNCHANGED <<frames[u], numTx[u], i[u], pc[u], verdict[u]>>
    BY <1>4, <2>1, <2>7 DEF Poll, Goto, TypeOK
  <2>9. Shape'
    BY <2>2, <2>3, <2>7, <2>8 DEF Shape, Busy
  <2> QED
    BY <2>6, <2>9
<1>5. ASSUME NEW t \in Thread, Keep(t) PROVE TypeOK' /\ Shape'
  <2>1. verdict' \in [Thread -> [Frame -> {"none", "tx", "drop"}]]
    <3>1. verdict[t] \in [Frame -> {"none", "tx", "drop"}]
      BY DEF TypeOK
    <3>2. [verdict[t] EXCEPT ![frames[t][i[t] + 1]] = "tx"] \in [Frame -> {"none", "tx", "drop"}]
      BY <3>1
    <3>3. verdict' = [verdict EXCEPT ![t] = [verdict[t] EXCEPT ![frames[t][i[t] + 1]] = "tx"]]
      BY <1>5 DEF Keep
    <3> QED
      BY <3>2, <3>3 DEF TypeOK
  <2>2. i' \in [Thread -> Nat]
    <3>1. i[t] \in Nat /\ i \in [Thread -> Nat]
      BY DEF TypeOK
    <3>2. i[t] + 1 \in Nat
      BY <3>1
    <3> QED
      BY <1>5, <3>1, <3>2 DEF Keep
  <2>3. TypeOK'
    BY <1>5, <2>1, <2>2 DEF Keep, TypeOK, queues, rings
  <2>a. i[t] \in Nat /\ numTx[t] \in Nat /\ i \in [Thread -> Nat]
    BY DEF TypeOK
  <2>4. /\ i'[t] = i[t] + 1 /\ i[t] < numTx[t]
        /\ \A u \in Thread \ {t} : i'[u] = i[u]
    BY <1>5, <2>a DEF Keep
  <2>6. \A u \in Thread \ {t} : verdict'[u] = verdict[u]
    <3>1. DOMAIN verdict = Thread
      BY DEF TypeOK
    <3>2. verdict' = [verdict EXCEPT ![t] = [verdict[t] EXCEPT ![frames[t][i[t] + 1]] = "tx"]]
      BY <1>5, <3>1 DEF Keep
    <3> QED
      BY <3>1, <3>2
  <2>5. Shape'
    BY <1>5, <2>4, <2>6, <2>a DEF Keep, Shape, Busy
  <2> QED
    BY <2>3, <2>5
<1>6. ASSUME NEW t \in Thread, Discard(t) PROVE TypeOK' /\ Shape'
  <2>1. i[t] \in Nat /\ numTx[t] \in Nat /\ frames[t] \in Seq(Frame)
    BY DEF TypeOK
  <2>2. i[t] < numTx[t] /\ numTx[t] <= Len(frames[t])
    BY <1>6 DEF Discard, Shape, Busy
  <2>3. /\ i[t] + 1 \in 1..Len(frames[t])
        /\ numTx[t] \in 1..Len(frames[t])
        /\ numTx[t] - 1 \in Nat
    BY <2>1, <2>2
  <2>4. /\ Swap(frames[t], i[t] + 1, numTx[t]) \in Seq(Frame)
        /\ Len(Swap(frames[t], i[t] + 1, numTx[t])) = Len(frames[t])
    BY <2>1, <2>3, SwapFacts
  <2>5. verdict' \in [Thread -> [Frame -> {"none", "tx", "drop"}]]
    BY <1>6 DEF Discard, TypeOK
  <2>6. frames' \in [Thread -> Seq(Frame)] /\ numTx' \in [Thread -> Nat]
    BY <1>6, <2>3, <2>4 DEF Discard, TypeOK
  <2>7. TypeOK'
    BY <1>6, <2>5, <2>6 DEF Discard, TypeOK, queues, rings
  <2>8. /\ numTx'[t] = numTx[t] - 1 /\ Len(frames'[t]) = Len(frames[t])
        /\ \A u \in Thread \ {t} : UNCHANGED <<numTx[u], frames[u], verdict[u]>>
    BY <1>6, <2>4 DEF Discard, TypeOK
  <2>9. Shape'
    BY <1>6, <2>1, <2>2, <2>8 DEF Discard, Shape, Busy
  <2> QED
    BY <2>7, <2>9
<1>7. ASSUME NEW t \in Thread, Send(t) PROVE TypeOK' /\ Shape'
  <2>1. frames[t] \in Seq(Frame) /\ numTx[t] \in 0..Len(frames[t]) /\ tx[t] \in Seq(Frame)
    BY <1>7 DEF Send, Shape, Busy, TypeOK
  <2>2. Produce(tx[t], Taken(frames[t], numTx[t])) \in Seq(Frame)
    BY <2>1, TakenFacts, ProduceFacts
  <2>3. tx' \in [Thread -> Seq(Frame)]
    BY <1>7, <2>2 DEF Send, TypeOK
  <2>4. pc' \in [Thread -> Label]
    BY <1>7, <1>h DEF Send, Label
  <2>5. TypeOK'
    BY <1>7, <2>3, <2>4 DEF Send, TypeOK, rings, batches
  <2>6. pc'[t] = "return" /\ \A u \in Thread \ {t} : pc'[u] = pc[u]
    BY <1>7 DEF Send, Goto, TypeOK
  <2>7. Shape'
    BY <1>7, <2>6 DEF Send, Shape, Busy, batches
  <2> QED
    BY <2>5, <2>7
<1>8. ASSUME NEW t \in Thread, Push(t) PROVE TypeOK' /\ Shape'
  <2> DEFINE spent == PushSlice(t, After(frames[t], numTx[t]))
  <2>1. frames[t] \in Seq(Frame) /\ numTx[t] \in 0..Len(frames[t]) /\ ring[t] \in Seq(Frame)
    BY <1>8 DEF Push, Shape, Busy, TypeOK
  <2>2. After(frames[t], numTx[t]) \in Seq(Frame)
    BY <2>1, AfterFacts
  <2>3. spent \in Seq(Frame)
    BY <2>1, <2>2, PushSliceFacts DEF TypeOK
  <2>4. ring' \in [Thread -> Seq(Frame)]
    BY <1>8, <2>1, <2>3 DEF Push, TypeOK
  <2>5. "top" \in Label \ Busy /\ "top" \notin {"refill", "drain", "advance"}
    BY DEF Label, Busy
  <2>6. ForgetBatch(t) /\ Goto(t, "top")
    BY <1>8 DEF Push
  <2>7. TypeOK'
    BY <1>8, <1>f, <1>h, <2>4, <2>5, <2>6 DEF Push, TypeOK, queues
  <2> QED
    BY <1>g, <2>5, <2>6, <2>7
<1>9. ASSUME NEW t \in Thread, Complete(t) PROVE TypeOK' /\ Shape'
  <2>1. PICK n \in Consumable(cq, FrameCount - Len(frames[t])) :
          /\ frames' = [frames EXCEPT ![t] = frames[t] \o Taken(cq, n)]
          /\ cq' = After(cq, n)
    BY <1>9 DEF Complete
  <2>2. n \in 0..Len(cq) /\ cq \in Seq(Frame) /\ frames[t] \in Seq(Frame)
    BY <2>1 DEF Consumable, TypeOK
  <2>a. Taken(cq, n) \in Seq(Frame) /\ Len(Taken(cq, n)) = n
    BY <2>2, TakenFacts
  <2>b. After(cq, n) \in Seq(Frame)
    BY <2>2, AfterFacts
  <2>3. /\ frames[t] \o Taken(cq, n) \in Seq(Frame)
        /\ Len(frames[t] \o Taken(cq, n)) = Len(frames[t]) + n
    <3> HIDE TaskFacts
    <3> QED
      BY <2>2, <2>a
  <2>4. frames' \in [Thread -> Seq(Frame)] /\ cq' \in Seq(Frame)
    BY <2>1, <2>3, <2>b DEF TypeOK
  <2>5. pc' \in [Thread -> Label]
    BY <1>9, <1>h DEF Complete, Label
  <2>6. TypeOK'
    BY <1>9, <2>4, <2>5 DEF Complete, TypeOK, rings
  <2>7. /\ pc'[t] = "refill" /\ Len(frames'[t]) = Len(frames[t]) + n
        /\ \A u \in Thread \ {t} : UNCHANGED <<pc[u], frames[u]>>
        /\ numTx[t] \in Nat
    BY <1>9, <2>1, <2>3 DEF Complete, Goto, TypeOK
  <2>8. Shape'
    BY <1>9, <2>2, <2>7 DEF Complete, Shape, Busy
  <2> QED
    BY <2>6, <2>8
<1>10. ASSUME NEW t \in Thread, Refill(t) PROVE TypeOK' /\ Shape'
  <2>1. frames[t] \in Seq(Frame) /\ numTx[t] \in 0..Len(frames[t])
    BY <1>10 DEF Refill, Shape, Busy, TypeOK
  <2>2. fq' \in Seq(Frame)
    BY <1>10, <2>1, AfterFacts, ProduceFacts DEF Refill, TypeOK
  <2>3. PICK l \in {"drain", "top"} : Goto(t, l)
    BY <1>10 DEF Refill
  <2>4. l \in Label \ Busy /\ t = Mediator /\ ForgetBatch(t)
    BY <1>10 DEF Refill, Label, Busy
  <2>5. todo' \subseteq Sender
    BY <1>10 DEF Refill, TypeOK
  <2>6. TypeOK'
    BY <1>10, <1>f, <1>h, <2>2, <2>3, <2>4, <2>5 DEF Refill, TypeOK
  <2> QED
    BY <1>g, <2>3, <2>4, <2>6
<1>11. ASSUME NEW t \in Thread, Stop(t) PROVE TypeOK' /\ Shape'
  <2>1. rx' \in [Thread -> Seq(Frame)] /\ tx' \in [Thread -> Seq(Frame)]
    BY <1>11, EmptyFacts DEF Stop, CloseSocket, TypeOK
  <2>2. pc' \in [Thread -> Label]
    BY <1>11, <1>h DEF Stop, Label
  <2>3. TypeOK'
    BY <1>11, <2>1, <2>2 DEF Stop, TypeOK, rings, batches
  <2>4. Shape'
    BY <1>11 DEF Stop, Goto, TypeOK, Shape, Busy, batches
  <2> QED
    BY <2>3, <2>4
<1>m. ASSUME NEW l \in {"drain", "advance", "top"}, Goto(Mediator, l),
             pc[Mediator] \notin Busy, UNCHANGED batches
      PROVE  Shape'
  BY <1>m DEF Goto, TypeOK, Shape, Busy, batches
<1>12. ASSUME NEW s \in Sender, SkipRing(s) PROVE TypeOK' /\ Shape'
  <2>1. todo' \subseteq Sender
    BY <1>12 DEF SkipRing, TypeOK
  <2>2. TypeOK'
    BY <1>12, <2>1 DEF SkipRing, TypeOK, queues, batches
  <2>3. Shape'
    BY <1>12 DEF SkipRing, Shape, batches
  <2> QED
    BY <2>2, <2>3
<1>13. ASSUME NEW s \in Sender, DrainRing(s) PROVE TypeOK' /\ Shape'
  <2>1. ring[s] \in Seq(Frame) /\ fq \in Seq(Frame)
    BY DEF TypeOK
  <2>2. PICK k \in 1..Len(ring[s]) :
          fq' = Produce(Produce(fq, Taken(ring[s], k)), After(ring[s], k))
    BY <1>13 DEF DrainRing
  <2>3. fq' \in Seq(Frame)
    BY <2>1, <2>2, TakenFacts, AfterFacts, ProduceFacts
  <2>a. ring' \in [Thread -> Seq(Frame)]
    BY <1>13, EmptyFacts DEF DrainRing, TypeOK
  <2>b. Len(ring[s]) \in Nat
    BY <2>1
  <2>4. stale' \in [Thread -> Nat]
    BY <1>13, <2>b DEF DrainRing, TypeOK
  <2>5. pc' \in [Thread -> Label]
    BY <1>13, <1>h DEF DrainRing, Label
  <2>6. TypeOK'
    BY <1>13, <2>3, <2>a, <2>4, <2>5 DEF DrainRing, TypeOK, batches
  <2>7. Shape'
    BY <1>13, <1>m DEF DrainRing, Busy
  <2> QED
    BY <2>6, <2>7
<1>14. ASSUME NEW s \in Sender, AdvanceRing(s) PROVE TypeOK' /\ Shape'
  <2>1. todo' \subseteq Sender /\ stale' \in [Thread -> Nat]
    BY <1>14 DEF AdvanceRing, TypeOK
  <2>2. pc' \in [Thread -> Label]
    BY <1>14, <1>h DEF AdvanceRing, Label
  <2>3. TypeOK'
    BY <1>14, <2>1, <2>2 DEF AdvanceRing, TypeOK, queues, batches
  <2>4. Shape'
    BY <1>14, <1>m DEF AdvanceRing, Busy
  <2> QED
    BY <2>3, <2>4
<1>15. ASSUME EndDrain PROVE TypeOK' /\ Shape'
  <2>1. PICK l \in {"top", "return"} : Goto(Mediator, l)
    BY <1>15 DEF EndDrain
  <2>2. pc' \in [Thread -> Label]
    BY <1>h, <2>1 DEF Label
  <2>3. TypeOK'
    BY <1>15, <2>2 DEF EndDrain, TypeOK, queues, rings, batches
  <2>4. /\ pc'[Mediator] = l /\ \A u \in Thread \ {Mediator} : pc'[u] = pc[u]
        /\ frames[Mediator] \in Seq(Frame)
    BY <2>1 DEF Goto, TypeOK
  <2>5. Shape'
    BY <1>15, <2>4 DEF EndDrain, Shape, Busy, batches
  <2> QED
    BY <2>3, <2>5
<1>16. ASSUME ExtraLoop PROVE TypeOK' /\ Shape'
  <2>1. todo' \subseteq Sender
    BY <1>16 DEF ExtraLoop
  <2>2. pc' \in [Thread -> Label]
    BY <1>16, <1>h DEF ExtraLoop, Label
  <2>3. TypeOK'
    BY <1>16, <2>1, <2>2 DEF ExtraLoop, TypeOK, queues, batches
  <2>4. Shape'
    BY <1>16, <1>m DEF ExtraLoop, Busy
  <2> QED
    BY <2>3, <2>4
<1>17. ASSUME Kill PROVE TypeOK' /\ Shape'
  <2>1. killed' \in BOOLEAN
    BY <1>17 DEF Kill
  <2>2. TypeOK'
    BY <1>17, <2>1 DEF Kill, TypeOK, queues, rings, batches
  <2>3. Shape'
    BY <1>17 DEF Kill, Shape, batches
  <2> QED
    BY <2>2, <2>3
<1>18. ASSUME UNCHANGED vars PROVE TypeOK' /\ Shape'
  <2>1. TypeOK'
    BY <1>18 DEF vars, TypeOK, queues, rings, batches
  <2>2. Shape'
    BY <1>18 DEF vars, Shape, batches
  <2> QED
    BY <2>1, <2>2
<1>19. ASSUME NEW t \in Thread, Sleep(t) PROVE TypeOK' /\ Shape'
  <2>1. pc' \in [Thread -> Label]
    BY <1>19, <1>h DEF Sleep, Label
  <2>2. TypeOK'
    BY <1>19, <2>1 DEF Sleep, TypeOK, queues, rings, batches
  <2>3. Shape'
    BY <1>19 DEF Sleep, Goto, TypeOK, Shape, Busy, batches
  <2> QED
    BY <2>2, <2>3
<1> QED
  BY <1>1, <1>2, <1>3, <1>4, <1>5, <1>6, <1>7, <1>8, <1>9, <1>10, <1>11,
     <1>12, <1>13, <1>14, <1>15, <1>16, <1>17, <1>18, <1>19
     DEF Next, Batch, Credit, Drain

\* The queues, the rings and every thread's batch stay well typed: in
\* particular the swap of dataplane_core never reads outside xsk.frames.
THEOREM TypeCorrect == Spec => []TypeOK
<1>1. Spec => [](TypeOK /\ Shape)
  BY InitShape, NextShape, PTL DEF Spec
<1> QED
  BY <1>1, PTL

(***************************************************************************)
(* Exclusive.  Whatever a step does, every place holds afterwards what it  *)
(* held before, or a part of it, or a part of what another place gave up.  *)
(***************************************************************************)
Distinct(P, H) ==
  \A p, q \in P : \A k \in 1..Len(H[p]), l \in 1..Len(H[q]) :
    H[p][k] = H[q][l] => p = q /\ k = l

\* Distinct, for two given entries.
LEMMA DistinctUse ==
  ASSUME NEW P, NEW H, Distinct(P, H), NEW p \in P, NEW q \in P,
         NEW k \in 1..Len(H[p]), NEW l \in 1..Len(H[q]), H[p][k] = H[q][l]
  PROVE  p = q /\ k = l
BY DEF Distinct

\* Place a gives up its first m entries, and place b appends the first n.
Moved(P, H, G, a, b, n, m) ==
  /\ a # b
  /\ n <= m
  /\ m <= Len(H[a])
  /\ \A p \in P \ {a, b} : G[p] = H[p]
  /\ Len(G[a]) = Len(H[a]) - m
  /\ \A k \in 1..Len(G[a]) : G[a][k] = H[a][m + k]
  /\ Len(G[b]) = Len(H[b]) + n
  /\ \A k \in 1..Len(H[b]) : G[b][k] = H[b][k]
  /\ \A k \in 1..n : G[b][Len(H[b]) + k] = H[a][k]

\* Moving a piece from one place to another repeats nothing.
LEMMA Transfer ==
  ASSUME NEW P, NEW S, NEW H \in [P -> Seq(S)], NEW G \in [P -> Seq(S)],
         Distinct(P, H), NEW a \in P, NEW b \in P,
         NEW n \in Nat, NEW m \in Nat, Moved(P, H, G, a, b, n, m)
  PROVE  Distinct(P, G)
<1> USE DEF Moved
<1> DEFINE org(p, k) == IF p = a THEN <<a, m + k>>
                        ELSE IF p = b /\ k > Len(H[b]) THEN <<a, k - Len(H[b])>>
                        ELSE <<p, k>>
<1>0. \A p \in P : Len(H[p]) \in Nat /\ Len(G[p]) \in Nat
  OBVIOUS
<1>1. ASSUME NEW p \in P, NEW k \in 1..Len(G[p])
      PROVE  /\ org(p, k)[1] \in P
             /\ org(p, k)[2] \in 1..Len(H[org(p, k)[1]])
             /\ G[p][k] = H[org(p, k)[1]][org(p, k)[2]]
  <2>1. CASE p = a
    BY <1>0, <1>1, <2>1
  <2>2. CASE p = b /\ k > Len(H[b])
    <3>1. k - Len(H[b]) \in 1..n /\ k - Len(H[b]) \in 1..Len(H[a])
      BY <1>0, <1>1, <2>2
    <3>2. G[b][Len(H[b]) + (k - Len(H[b]))] = H[a][k - Len(H[b])]
      BY <3>1
    <3>3. Len(H[b]) + (k - Len(H[b])) = k
      BY <1>0, <1>1
    <3> QED
      BY <2>2, <3>1, <3>2, <3>3
  <2>3. CASE p = b /\ ~(k > Len(H[b]))
    BY <1>0, <1>1, <2>3
  <2>4. CASE p # a /\ p # b
    BY <1>0, <1>1, <2>4
  <2> QED
    BY <2>1, <2>2, <2>3, <2>4
<1>2. ASSUME NEW p \in P, NEW k \in 1..Len(G[p]), NEW q \in P, NEW l \in 1..Len(G[q]),
             org(p, k)[1] = org(q, l)[1], org(p, k)[2] = org(q, l)[2]
      PROVE  p = q /\ k = l
  BY <1>0, <1>2
<1>3. ASSUME NEW p \in P, NEW q \in P, NEW k \in 1..Len(G[p]), NEW l \in 1..Len(G[q]),
             G[p][k] = G[q][l]
      PROVE  p = q /\ k = l
  <2>1. /\ org(p, k)[1] = org(q, l)[1]
        /\ org(p, k)[2] = org(q, l)[2]
    <3> HIDE DEF org
    <3>1. PICK p0 \in P : p0 = org(p, k)[1]
      BY <1>1
    <3>2. PICK k0 \in 1..Len(H[p0]) : k0 = org(p, k)[2] /\ G[p][k] = H[p0][k0]
      BY <1>1, <3>1
    <3>3. PICK q0 \in P : q0 = org(q, l)[1]
      BY <1>1
    <3>4. PICK l0 \in 1..Len(H[q0]) : l0 = org(q, l)[2] /\ G[q][l] = H[q0][l0]
      BY <1>1, <3>3
    <3>5. H[p0][k0] = H[q0][l0]
      BY <1>3, <3>2, <3>4
    <3>6. p0 = q0 /\ k0 = l0
      BY ONLY <3>5, DistinctUse, Distinct(P, H), p0 \in P, q0 \in P,
         k0 \in 1..Len(H[p0]), l0 \in 1..Len(H[q0])
    <3> QED
      BY <3>1, <3>2, <3>3, <3>4, <3>6
  <2> QED
    BY <1>2, <2>1
<1> QED
  BY <1>3 DEF Distinct

\* The same, for a sequence r of those entries.
Handed(P, H, G, a, b, m, r) ==
  /\ a # b
  /\ Len(r) <= m
  /\ m <= Len(H[a])
  /\ \A k \in 1..Len(r) : r[k] = H[a][k]
  /\ \A p \in P \ {a, b} : G[p] = H[p]
  /\ G[a] = After(H[a], m)
  /\ G[b] = H[b] \o r

\* Handing over a sequence of entries moves them.
LEMMA Handover ==
  ASSUME NEW P, NEW S, NEW H \in [P -> Seq(S)], NEW G \in [P -> Seq(S)],
         NEW a \in P, NEW b \in P, NEW m \in Nat, NEW r \in Seq(S),
         Handed(P, H, G, a, b, m, r)
  PROVE  Moved(P, H, G, a, b, Len(r), m)
<1>1. H[a] \in Seq(S) /\ H[b] \in Seq(S) /\ Len(r) \in Nat /\ m \in 0..Len(H[a])
  BY DEF Handed
<1>2. /\ Len(After(H[a], m)) = Len(H[a]) - m
      /\ \A k \in 1..(Len(H[a]) - m) : After(H[a], m)[k] = H[a][k + m]
  BY <1>1, AfterFacts
<1>3. G[a] = After(H[a], m) /\ G[b] = H[b] \o r
  BY DEF Handed
<1>4. /\ Len(G[a]) = Len(H[a]) - m
      /\ \A k \in 1..Len(G[a]) : G[a][k] = H[a][m + k]
  <2>1. \A k \in Nat : k + m = m + k
    OBVIOUS
  <2>2. 1..(Len(H[a]) - m) \subseteq Nat
    BY <1>1
  <2> QED
    BY ONLY <1>2, <1>3, <2>1, <2>2
<1>5. /\ Len(H[b] \o r) = Len(H[b]) + Len(r)
      /\ \A k \in 1..Len(H[b]) : (H[b] \o r)[k] = H[b][k]
      /\ \A k \in 1..Len(r) : (H[b] \o r)[Len(H[b]) + k] = r[k]
  BY <1>1, ConcatFacts
<1> QED
  BY <1>1, <1>3, <1>4, <1>5 DEF Moved, Handed

\* Some places lose everything they held.
LEMMA Shrink ==
  ASSUME NEW P, NEW H, NEW G, Distinct(P, H),
         \A p \in P : G[p] = H[p] \/ G[p] = <<>>
  PROVE  Distinct(P, G)
BY DEF Distinct

\* Two entries of one place change places.
Swapped(P, H, G, a, c, d) ==
  /\ c \in 1..Len(H[a])
  /\ d \in 1..Len(H[a])
  /\ \A p \in P \ {a} : G[p] = H[p]
  /\ Len(G[a]) = Len(H[a])
  /\ \A j \in 1..Len(H[a]) :
       G[a][j] = IF j = d THEN H[a][c] ELSE IF j = c THEN H[a][d] ELSE H[a][j]

\* Exchanging two entries of one place repeats nothing.
LEMMA Permute ==
  ASSUME NEW P, NEW S, NEW H \in [P -> Seq(S)], NEW G \in [P -> Seq(S)],
         Distinct(P, H), NEW a \in P, NEW c, NEW d, Swapped(P, H, G, a, c, d)
  PROVE  Distinct(P, G)
<1> USE DEF Swapped
<1> DEFINE org(p, j) == IF p # a THEN j ELSE IF j = d THEN c ELSE IF j = c THEN d ELSE j
<1>1. ASSUME NEW p \in P, NEW k \in 1..Len(G[p])
      PROVE  org(p, k) \in 1..Len(H[p]) /\ G[p][k] = H[p][org(p, k)]
  BY <1>1
<1>2. ASSUME NEW p \in P, NEW q \in P, NEW k \in 1..Len(G[p]), NEW l \in 1..Len(G[q]),
             G[p][k] = G[q][l]
      PROVE  p = q /\ k = l
  <2>1. p = q /\ org(p, k) = org(q, l)
    <3> HIDE DEF org
    <3>1. PICK k0 \in 1..Len(H[p]) : k0 = org(p, k) /\ G[p][k] = H[p][k0]
      BY <1>1
    <3>2. PICK l0 \in 1..Len(H[q]) : l0 = org(q, l) /\ G[q][l] = H[q][l0]
      BY <1>1
    <3>3. H[p][k0] = H[q][l0]
      BY <1>2, <3>1, <3>2
    <3>4. p = q /\ k0 = l0
      BY <3>3, DistinctUse
    <3> QED
      BY <3>1, <3>2, <3>4
  <2> QED
    BY <2>1
<1> QED
  BY <1>2 DEF Distinct

HeldIs ==
  /\ Held \in [Place -> Seq(Frame)]
  /\ Held[<<"fq", Mediator>>] = fq
  /\ Held[<<"cq", Mediator>>] = cq
  /\ \A t \in Thread :
       /\ t # Mediator => Held[<<"fq", t>>] = <<>> /\ Held[<<"cq", t>>] = <<>>
       /\ Held[<<"rx", t>>] = rx[t]
       /\ Held[<<"tx", t>>] = tx[t]
       /\ Held[<<"ring", t>>] = ring[t]
       /\ Held[<<"own", t>>] = Own(t)
       /\ Own(t) \in Seq(Frame)
       /\ pc[t] \notin Busy => Own(t) = <<>>
       /\ pc[t] = "core" => Own(t) = frames[t]

\* What each place holds, without the case distinction of Held.
LEMMA HeldFacts == TypeOK /\ Shape => HeldIs
<1> SUFFICES ASSUME TypeOK, Shape PROVE HeldIs
  OBVIOUS
<1>1. ASSUME NEW t \in Thread
      PROVE  /\ Own(t) \in Seq(Frame)
             /\ pc[t] \notin Busy => Own(t) = <<>>
             /\ pc[t] = "core" => Own(t) = frames[t]
  <2>1. frames[t] \in Seq(Frame) /\ numTx[t] \in Nat
    BY DEF TypeOK
  <2>2. CASE pc[t] \in {"return", "refill"}
    <3>1. numTx[t] \in 0..Len(frames[t])
      BY <2>1, <2>2 DEF Shape, Busy
    <3>2. Own(t) = After(frames[t], numTx[t])
      BY <2>2 DEF Own
    <3> QED
      BY <2>1, <2>2, <3>1, <3>2, AfterFacts DEF Busy
  <2>3. CASE pc[t] \notin {"return", "refill"}
    <3>1. Own(t) = After(frames[t], 0)
      BY <2>3 DEF Own
    <3>2. After(frames[t], 0) = frames[t]
      BY <2>1 DEF After
    <3>3. pc[t] \notin Busy => frames[t] = <<>>
      BY DEF Shape
    <3> QED
      BY <2>1, <3>1, <3>2, <3>3
  <2> QED
    BY <2>2, <2>3
<1>2. \A p \in Place : Held[p] \in Seq(Frame)
  BY <1>1 DEF Held, Place, TypeOK
<1>3. Held \in [Place -> Seq(Frame)]
  BY <1>2 DEF Held
<1>4. /\ Held[<<"fq", Mediator>>] = fq
      /\ Held[<<"cq", Mediator>>] = cq
  BY TaskFacts DEF Held, Place
<1>5. ASSUME NEW t \in Thread
      PROVE  /\ t # Mediator => Held[<<"fq", t>>] = <<>> /\ Held[<<"cq", t>>] = <<>>
             /\ Held[<<"rx", t>>] = rx[t]
             /\ Held[<<"tx", t>>] = tx[t]
             /\ Held[<<"ring", t>>] = ring[t]
             /\ Held[<<"own", t>>] = Own(t)
  BY DEF Held, Place
<1> QED
  BY <1>1, <1>3, <1>4, <1>5 DEF HeldIs

\* HeldFacts in the next state.
LEMMA HeldFactsNext == TypeOK' /\ Shape' => HeldIs'
BY HeldFacts, PTL

\* What a step leaves alone is held where it was.
LEMMA SamePlaces ==
  ASSUME HeldIs, HeldIs', NEW A,
         <<"fq", Mediator>> \notin A => fq' = fq,
         <<"cq", Mediator>> \notin A => cq' = cq,
         \A t \in Thread :
           /\ <<"rx", t>> \notin A => rx'[t] = rx[t]
           /\ <<"tx", t>> \notin A => tx'[t] = tx[t]
           /\ <<"ring", t>> \notin A => ring'[t] = ring[t]
           /\ <<"own", t>> \notin A => Own(t)' = Own(t)
  PROVE  \A p \in Place \ A : Held'[p] = Held[p]
<1> SUFFICES ASSUME NEW kind \in {"fq", "cq", "rx", "tx", "ring", "own"},
                    NEW t \in Thread, <<kind, t>> \notin A
             PROVE  Held'[<<kind, t>>] = Held[<<kind, t>>]
  BY DEF Place
<1>1. Held[<<"fq", Mediator>>] = fq /\ Held'[<<"fq", Mediator>>] = fq'
  BY DEF HeldIs
<1>2. Held[<<"cq", Mediator>>] = cq /\ Held'[<<"cq", Mediator>>] = cq'
  BY DEF HeldIs
<1>3. t # Mediator => /\ Held[<<"fq", t>>] = Held'[<<"fq", t>>]
                      /\ Held[<<"cq", t>>] = Held'[<<"cq", t>>]
  BY DEF HeldIs
<1>4. Held[<<"rx", t>>] = rx[t] /\ Held'[<<"rx", t>>] = rx'[t]
  BY DEF HeldIs
<1>5. Held[<<"tx", t>>] = tx[t] /\ Held'[<<"tx", t>>] = tx'[t]
  BY DEF HeldIs
<1>6. Held[<<"ring", t>>] = ring[t] /\ Held'[<<"ring", t>>] = ring'[t]
  BY DEF HeldIs
<1>7. Held[<<"own", t>>] = Own(t) /\ Held'[<<"own", t>>] = Own(t)'
  BY DEF HeldIs
<1>8. CASE kind = "fq"
  BY <1>1, <1>3, <1>8
<1>9. CASE kind = "cq"
  BY <1>2, <1>3, <1>9
<1>10. CASE kind = "rx"
  BY <1>4, <1>10
<1>11. CASE kind = "tx"
  BY <1>5, <1>11
<1>12. CASE kind = "ring"
  BY <1>6, <1>12
<1>13. CASE kind = "own"
  BY <1>7, <1>13
<1> QED
  BY <1>8, <1>9, <1>10, <1>11, <1>12, <1>13

\* A batch that does not change is owned as before.
LEMMA OwnSame ==
  ASSUME NEW t \in Thread, frames'[t] = frames[t], numTx'[t] = numTx[t], pc'[t] = pc[t]
  PROVE  Own(t)' = Own(t)
BY DEF Own

\* At first every descriptor is in the fill queue, once.
LEMMA InitExclusive == Init => Exclusive
<1> SUFFICES ASSUME Init PROVE Exclusive
  OBVIOUS
<1>1. HeldIs
  BY InitShape, HeldFacts
<1>2. ASSUME NEW p \in Place, NEW k \in 1..Len(Held[p])
      PROVE  p = <<"fq", Mediator>> /\ Held[p] = fq /\ k \in DOMAIN fq
  <2>1. PICK kind \in {"fq", "cq", "rx", "tx", "ring", "own"}, t \in Thread : p = <<kind, t>>
    BY DEF Place
  <2>2. pc[t] \notin Busy
    BY DEF Init, Busy
  <2>3. kind = "fq" /\ t = Mediator
    <3>1. /\ cq = <<>> /\ rx[t] = <<>> /\ tx[t] = <<>> /\ ring[t] = <<>>
          /\ Own(t) = <<>>
      BY <1>1, <2>2 DEF Init, HeldIs
    <3>2. Held[<<"cq", t>>] = <<>>
      BY <1>1, <3>1 DEF HeldIs
    <3>3. /\ Held[<<"rx", t>>] = <<>> /\ Held[<<"tx", t>>] = <<>>
          /\ Held[<<"ring", t>>] = <<>> /\ Held[<<"own", t>>] = <<>>
      BY <1>1, <3>1 DEF HeldIs
    <3>4. t # Mediator => Held[<<"fq", t>>] = <<>>
      BY <1>1 DEF HeldIs
    <3> QED
      BY <1>2, <2>1, <3>2, <3>3, <3>4
  <2> QED
    BY <1>1, <1>2, <2>1, <2>3 DEF HeldIs
<1>3. DOMAIN fq = 1..FrameCount
  BY DEF Init
<1>4. \A k, l \in 1..FrameCount : fq[k] = fq[l] => k = l
  BY DEF Init
<1> QED
  BY <1>2, <1>3, <1>4 DEF Exclusive

(***************************************************************************)
(* ProduceFits.  Two places hold no more than the UMEM between them, and   *)
(* every queue has as many slots as the UMEM has descriptors.              *)
(***************************************************************************)

\* Two sequences without a common or repeated element are no longer, taken
\* together, than the set they draw from.
LEMMA TwoFit ==
  ASSUME NEW P, NEW H \in [P -> Seq(Frame)], Distinct(P, H),
         NEW p \in P, NEW q \in P, p # q
  PROVE  Len(H[p]) + Len(H[q]) <= FrameCount
<1> DEFINE a == Len(H[p])
           b == Len(H[q])
           f == [k \in 1..(a + b) |-> IF k <= a THEN H[p][k] ELSE H[q][k - a]]
<1>1. a \in Nat /\ b \in Nat /\ H[p] \in Seq(Frame) /\ H[q] \in Seq(Frame)
  OBVIOUS
<1>2. IsFiniteSet(Frame) /\ FrameCount \in Nat
  BY UmemAssumption, FS_CardinalityType DEF FrameCount
<1>3. /\ \A k \in 1..a : H[p][k] \in Frame
      /\ \A k \in 1..b : H[q][k] \in Frame
  BY <1>1
<1> HIDE DEF a, b
<1>4. IsFiniteSet(1..(a + b)) /\ Cardinality(1..(a + b)) = a + b
  <2>1. a + b \in Int /\ 1 \in Int /\ (1 > a + b => a + b = 0)
    BY <1>1
  <2> QED
    BY <2>1, FS_Interval
<1>5. f \in [1..(a + b) -> Frame]
  <2>1. ASSUME NEW k \in 1..(a + b)
        PROVE  (IF k <= a THEN H[p][k] ELSE H[q][k - a]) \in Frame
    <3>1. CASE k <= a
      BY <1>1, <1>3, <3>1
    <3>2. CASE ~(k <= a)
      <4>1. k - a \in 1..b
        BY <1>1, <3>2
      <4> QED
        BY <1>3, <3>2, <4>1
    <3> QED
      BY <3>1, <3>2
  <2> QED
    BY <2>1
<1>6. ASSUME NEW k \in 1..(a + b), NEW l \in 1..(a + b), f[k] = f[l]
      PROVE  k = l
  <2>1. CASE k <= a /\ l <= a
    <3>1. k \in 1..Len(H[p]) /\ l \in 1..Len(H[p]) /\ H[p][k] = H[p][l]
      BY <1>1, <1>6, <2>1 DEF a
    <3> QED
      BY <3>1, DistinctUse
  <2>2. CASE k <= a /\ ~(l <= a)
    <3>1. k \in 1..Len(H[p]) /\ l - a \in 1..b /\ H[p][k] = H[q][l - a]
      BY <1>1, <1>6, <2>2 DEF a
    <3> QED
      BY <3>1, DistinctUse DEF b
  <2>3. CASE ~(k <= a) /\ l <= a
    <3>1. l \in 1..Len(H[p]) /\ k - a \in 1..b /\ H[q][k - a] = H[p][l]
      BY <1>1, <1>6, <2>3 DEF a
    <3> QED
      BY <3>1, DistinctUse DEF b
  <2>4. CASE ~(k <= a) /\ ~(l <= a)
    <3>1. k - a \in 1..b /\ l - a \in 1..b /\ H[q][k - a] = H[q][l - a]
      BY <1>1, <1>6, <2>4
    <3>2. k - a = l - a
      BY <3>1, DistinctUse DEF b
    <3> QED
      BY <1>1, <3>2
  <2> QED
    BY <2>1, <2>2, <2>3, <2>4
<1>7. ~(FrameCount < a + b)
  <2> SUFFICES ASSUME FrameCount < a + b PROVE FALSE
    OBVIOUS
  <2> HIDE DEF f
  <2>1. \E k, l \in 1..(a + b) : k # l /\ f[k] = f[l]
    BY <1>2, <1>4, <1>5, FS_PigeonHole DEF FrameCount
  <2> QED
    BY <1>6, <2>1
<1> QED
  BY <1>1, <1>2, <1>7 DEF a, b

\* When a queue is about to be produced into, what goes in comes from another
\* place, and the two together fit.
LEMMA ExclusiveFits == TypeOK /\ Shape /\ Exclusive => ProduceFits
<1> SUFFICES ASSUME TypeOK, Shape, Exclusive PROVE ProduceFits
  OBVIOUS
<1>1. HeldIs
  BY HeldFacts
<1>2. Held \in [Place -> Seq(Frame)] /\ Distinct(Place, Held)
  BY <1>1 DEF HeldIs, Exclusive, Distinct
<1>3. QueueSize \in Nat /\ FrameCount <= QueueSize /\ FrameCount \in Nat
  BY UmemAssumption, FS_CardinalityType DEF FrameCount
<1>4. /\ <<"fq", Mediator>> \in Place
      /\ \A t \in Thread : /\ <<"tx", t>> \in Place
                           /\ <<"ring", t>> \in Place
                           /\ <<"own", t>> \in Place
  BY TaskFacts DEF Place
<1>5. ASSUME NEW t \in Worker, pc[t] = "core"
      PROVE  Len(tx[t]) + numTx[t] <= QueueSize
  <2>1. t \in Thread
    BY TaskFacts
  <2>2. Held[<<"tx", t>>] = tx[t] /\ Held[<<"own", t>>] = frames[t]
    BY <1>1, <1>5, <2>1 DEF HeldIs
  <2>3. Len(tx[t]) + Len(frames[t]) <= FrameCount
    <3>1. Len(Held[<<"tx", t>>]) + Len(Held[<<"own", t>>]) <= FrameCount
      BY <1>2, <1>4, <2>1, TwoFit
    <3> QED
      BY <2>2, <3>1
  <2>4. numTx[t] <= Len(frames[t])
    BY <1>5, <2>1 DEF Shape, Busy
  <2>5. Len(tx[t]) \in Nat /\ Len(frames[t]) \in Nat /\ numTx[t] \in Nat
    BY <2>1 DEF TypeOK
  <2>6. \A x, y, z \in Nat : x + y <= FrameCount /\ z <= y => x + z <= QueueSize
    BY <1>3
  <2> QED
    BY <2>3, <2>4, <2>5, <2>6
<1>6. ASSUME NEW t \in Thread, t = Mediator
      PROVE  Len(fq) + Len(Own(t)) <= QueueSize
  <2>1. Held[<<"fq", Mediator>>] = fq /\ Held[<<"own", t>>] = Own(t)
    BY <1>1 DEF HeldIs
  <2>2. Len(Held[<<"fq", Mediator>>]) + Len(Held[<<"own", t>>]) <= FrameCount
    BY <1>2, <1>4, TwoFit
  <2>3. Len(fq) \in Nat /\ Len(Own(t)) \in Nat
    <3>1. fq \in Seq(Frame) /\ Own(t) \in Seq(Frame)
      BY <1>1 DEF HeldIs, TypeOK
    <3> QED
      BY <3>1
  <2> QED
    BY <1>3, <2>1, <2>2, <2>3
<1>7. ASSUME NEW s \in todo
      PROVE  Len(fq) + Len(ring[s]) <= QueueSize
  <2>1. s \in Thread
    BY TaskFacts DEF TypeOK
  <2>2. Held[<<"fq", Mediator>>] = fq /\ Held[<<"ring", s>>] = ring[s]
    BY <1>1, <2>1 DEF HeldIs
  <2>3. Len(Held[<<"fq", Mediator>>]) + Len(Held[<<"ring", s>>]) <= FrameCount
    BY <1>2, <1>4, <2>1, TwoFit
  <2>4. Len(fq) \in Nat /\ Len(ring[s]) \in Nat
    BY <2>1 DEF TypeOK
  <2> QED
    BY <1>3, <2>2, <2>3, <2>4
<1> QED
  BY <1>5, <1>6, <1>7 DEF ProduceFits

(***************************************************************************)
(* What one step does to the places: nothing; a thread leaves and its own  *)
(* are emptied; one place hands a part over to another, all of that part   *)
(* unless a ring is too small; or the entries of one place are reordered.  *)
(***************************************************************************)

\* A thread has left, or may: what it held goes with it.
Lossy == killed \/ \E t \in Worker : pc[t] = "dead"

\* All m entries given up are taken, or a push into a ring finds slots that the
\* mediator has not released yet.
Short(a, n, m) ==
  n = m \/ \E t \in Sender : a = <<"own", t>> /\ Pushes(t) /\ m - n <= stale[t]

Private(t) == {<<"rx", t>>, <<"tx", t>>, <<"own", t>>}

Settled   == \A p \in Place : Held'[p] = Held[p]
Torn      == Lossy' /\ \E t \in Thread :
               /\ Leaves(t)
               /\ \A p \in Place : Held'[p] = Held[p] \/ (p \in Private(t) /\ Held'[p] = <<>>)
Passed    == \E a, b \in Place : \E n, m \in Nat :
               Moved(Place, Held, Held', a, b, n, m) /\ Short(a, n, m)
Reordered == \E a \in Place : \E c, d \in Nat : Swapped(Place, Held, Held', a, c, d)

\* Every step of a thread or of the kernel is of one of these four kinds.
LEMMA NextMoves ==
  TypeOK /\ Shape /\ TypeOK' /\ Shape' /\ Exclusive /\ [Next]_vars
    => Settled \/ Torn \/ Passed \/ Reordered
<1> SUFFICES ASSUME TypeOK, Shape, TypeOK', Shape', Exclusive, [Next]_vars
             PROVE  Settled \/ Torn \/ Passed \/ Reordered
  OBVIOUS
<1>a. HeldIs /\ HeldIs'
  BY HeldFacts, HeldFactsNext
<1>b. Distinct(Place, Held)
  BY DEF Exclusive, Distinct
<1>c. Held \in [Place -> Seq(Frame)] /\ Held' \in [Place -> Seq(Frame)]
  BY <1>a DEF HeldIs
<1>p. /\ <<"fq", Mediator>> \in Place /\ <<"cq", Mediator>> \in Place
      /\ \A t \in Thread : /\ <<"rx", t>> \in Place /\ <<"tx", t>> \in Place
                           /\ <<"ring", t>> \in Place /\ <<"own", t>> \in Place
  BY TaskFacts DEF Place
<1>f. ProduceFits
  BY ExclusiveFits
<1>w. ASSUME NEW a \in Place, NEW b \in Place, NEW m \in Nat, NEW r \in Seq(Frame),
             Handed(Place, Held, Held', a, b, m, r), Short(a, Len(r), m)
      PROVE  Passed
  <2>1. Moved(Place, Held, Held', a, b, Len(r), m)
    BY ONLY <1>c, <1>w, Handover
  <2>2. Len(r) \in Nat
    BY <1>w
  <2> QED
    BY <1>w, <2>1, <2>2 DEF Passed
<1>r. ASSUME NEW a \in Place, NEW b \in Place, NEW m \in Nat, NEW r \in Seq(Frame),
             Handed(Place, Held, Held', a, b, m, r), Len(r) = m
      PROVE  Passed
  BY <1>r, <1>w DEF Short
<1>1. ASSUME NEW t \in Worker, KernelRx(t) PROVE Passed
  <2> DEFINE a == <<"fq", Mediator>>
             b == <<"rx", t>>
  <2>1. t \in Thread
    BY TaskFacts
  <2>2. \A p \in Place \ {a, b} : Held'[p] = Held[p]
    <3>1. \A u \in Thread : Own(u)' = Own(u)
      BY <1>1, OwnSame DEF KernelRx, batches
    <3>2. \A u \in Thread : <<"rx", u>> \notin {a, b} => rx'[u] = rx[u]
      BY <1>1 DEF KernelRx, TypeOK
    <3>3. UNCHANGED <<cq, tx, ring>>
      BY <1>1 DEF KernelRx, rings
    <3> QED
      BY <1>a, <3>1, <3>2, <3>3, SamePlaces
  <2>3. Held[a] = fq /\ Held'[a] = Tail(fq) /\ Held[b] = rx[t] /\ Held'[b] = Append(rx[t], Head(fq))
    BY <1>1, <1>a, <2>1 DEF HeldIs, KernelRx, TypeOK
  <2>4. fq \in Seq(Frame) /\ fq # <<>> /\ rx[t] \in Seq(Frame)
    BY <1>1, <2>1 DEF KernelRx, TypeOK
  <2>5. /\ 1 <= Len(Held[a]) /\ Len(Held'[a]) = Len(Held[a]) - 1
        /\ \A k \in 1..Len(Held'[a]) : Held'[a][k] = Held[a][1 + k]
    BY <2>3, <2>4
  <2>6. /\ Len(Held'[b]) = Len(Held[b]) + 1
        /\ \A k \in 1..Len(Held[b]) : Held'[b][k] = Held[b][k]
        /\ \A k \in 1..1 : Held'[b][Len(Held[b]) + k] = Held[a][k]
    BY <2>3, <2>4
  <2>7. a \in Place /\ b \in Place /\ a # b
    BY <1>p, <2>1
  <2> HIDE DEF a, b
  <2>8. Moved(Place, Held, Held', a, b, 1, 1)
    BY <2>2, <2>5, <2>6, <2>7 DEF Moved
  <2> QED
    BY <2>7, <2>8 DEF Passed, Short
<1>2. ASSUME NEW t \in Worker, KernelTx(t) PROVE Passed
  <2> DEFINE a == <<"tx", t>>
             b == <<"cq", Mediator>>
  <2>1. t \in Thread
    BY TaskFacts
  <2>2. \A p \in Place \ {a, b} : Held'[p] = Held[p]
    <3>1. \A w \in Thread : Own(w)' = Own(w)
      BY <1>2, OwnSame DEF KernelTx, batches
    <3>2. \A w \in Thread : <<"tx", w>> \notin {a, b} => tx'[w] = tx[w]
      BY <1>2 DEF KernelTx, TypeOK
    <3>3. UNCHANGED <<fq, rx, ring>>
      BY <1>2 DEF KernelTx, rings
    <3> QED
      BY <1>a, <3>1, <3>2, <3>3, SamePlaces
  <2>3. Held[a] = tx[t] /\ Held'[a] = Tail(tx[t]) /\ Held[b] = cq /\ Held'[b] = Append(cq, Head(tx[t]))
    BY <1>2, <1>a, <2>1 DEF HeldIs, KernelTx, TypeOK
  <2>4. cq \in Seq(Frame) /\ tx[t] # <<>> /\ tx[t] \in Seq(Frame)
    BY <1>2, <2>1 DEF KernelTx, TypeOK
  <2>5. /\ 1 <= Len(Held[a]) /\ Len(Held'[a]) = Len(Held[a]) - 1
        /\ \A k \in 1..Len(Held'[a]) : Held'[a][k] = Held[a][1 + k]
    BY <2>3, <2>4
  <2>6. /\ Len(Held'[b]) = Len(Held[b]) + 1
        /\ \A k \in 1..Len(Held[b]) : Held'[b][k] = Held[b][k]
        /\ \A k \in 1..1 : Held'[b][Len(Held[b]) + k] = Held[a][k]
    BY <2>3, <2>4
  <2>7. a \in Place /\ b \in Place /\ a # b
    BY <1>p, <2>1
  <2> HIDE DEF a, b
  <2>8. Moved(Place, Held, Held', a, b, 1, 1)
    BY <2>2, <2>5, <2>6, <2>7 DEF Moved
  <2> QED
    BY <2>7, <2>8 DEF Passed, Short
<1>s. ASSUME UNCHANGED <<fq, cq, rx, tx, ring>>, \A w \in Thread : Own(w)' = Own(w)
      PROVE  Settled
  <2>1. \A p \in Place \ {} : Held'[p] = Held[p]
    BY <1>a, <1>s, SamePlaces
  <2> QED
    BY <2>1 DEF Settled
<1>q. ASSUME NEW t \in Thread, CloseSocket(t), UNCHANGED <<fq, cq, ring>>, Own(t)' = <<>>,
             \A w \in Thread \ {t} : Own(w)' = Own(w), Lossy', Leaves(t)
      PROVE  Torn
  <2> DEFINE A == Private(t)
  <2>1. /\ rx'[t] = <<>> /\ \A w \in Thread \ {t} : rx'[w] = rx[w]
        /\ tx'[t] = <<>> /\ \A w \in Thread \ {t} : tx'[w] = tx[w]
    BY <1>q DEF CloseSocket, Empty, TypeOK
  <2>2. \A p \in Place \ A : Held'[p] = Held[p]
    BY <1>a, <1>q, <2>1, SamePlaces DEF Private
  <2>3. \A p \in A : Held'[p] = <<>>
    BY <1>a, <1>q, <2>1 DEF HeldIs, Private
  <2> QED
    BY <1>q, <2>2, <2>3 DEF Torn
<1>3. ASSUME NEW t \in Worker, Panic(t) PROVE Torn
  <2>1. t \in Thread /\ CloseSocket(t) /\ UNCHANGED <<fq, cq, ring>>
    BY <1>3, TaskFacts DEF Panic, rings
  <2>2. pc'[t] \notin Busy
    BY <1>3, <2>1 DEF Panic, Goto, TypeOK, Busy
  <2>3. \A w \in Thread \ {t} :
          frames'[w] = frames[w] /\ numTx'[w] = numTx[w] /\ pc'[w] = pc[w]
    BY <1>3 DEF Panic, ForgetBatch, Empty, Goto, TypeOK
  <2>4. Own(t)' = <<>>
    BY <1>a, <2>1, <2>2 DEF HeldIs
  <2>5. Lossy' /\ Leaves(t)
    BY <1>3, <2>1 DEF Panic, Goto, TypeOK, Lossy, Leaves
  <2> QED
    BY <1>q, <2>1, <2>3, <2>4, <2>5, OwnSame
<1>4. ASSUME NEW t \in Thread, Poll(t) PROVE Passed
  <2> DEFINE a == <<"rx", t>>
             b == <<"own", t>>
  <2>1. PICK n \in Consumable(rx[t], FrameCount) :
          /\ frames' = [frames EXCEPT ![t] = Taken(rx[t], n)]
          /\ rx' = [rx EXCEPT ![t] = After(rx[t], n)]
          /\ numTx' = [numTx EXCEPT ![t] = n]
    BY <1>4 DEF Poll
  <2>2. n \in 0..Len(rx[t]) /\ n \in Nat /\ rx[t] \in Seq(Frame)
    BY <2>1 DEF Consumable, TypeOK
  <2>3. /\ Taken(rx[t], n) \in Seq(Frame)
        /\ Len(Taken(rx[t], n)) = n
        /\ \A k \in 1..n : Taken(rx[t], n)[k] = rx[t][k]
    BY <2>2, TakenFacts
  <2>4. /\ rx'[t] = After(rx[t], n) /\ frames'[t] = Taken(rx[t], n) /\ pc'[t] = "core"
        /\ pc[t] \notin Busy
        /\ \A w \in Thread \ {t} : /\ rx'[w] = rx[w] /\ frames'[w] = frames[w]
                                   /\ numTx'[w] = numTx[w] /\ pc'[w] = pc[w]
    BY <1>4, <2>1 DEF Poll, Goto, TypeOK, Busy
  <2>5. Held[a] = rx[t] /\ Held'[a] = After(Held[a], n)
    BY <1>a, <2>4 DEF HeldIs
  <2>6. Held[b] = <<>> /\ Held'[b] = Taken(rx[t], n)
    BY <1>a, <2>4 DEF HeldIs
  <2>7. Held'[b] = Held[b] \o Taken(rx[t], n)
    BY <2>3, <2>6
  <2>8. \A w \in Thread \ {t} : Own(w)' = Own(w)
    BY <2>4, OwnSame
  <2>9. UNCHANGED <<fq, cq, tx, ring>>
    BY <1>4 DEF Poll, rings
  <2>10. \A p \in Place \ {a, b} : Held'[p] = Held[p]
    BY <1>a, <2>4, <2>8, <2>9, SamePlaces
  <2>11. a \in Place /\ b \in Place /\ a # b
    BY <1>p
  <2> HIDE DEF a, b
  <2>12. Handed(Place, Held, Held', a, b, n, Taken(rx[t], n))
    BY <2>2, <2>3, <2>5, <2>7, <2>10, <2>11 DEF Handed
  <2> QED
    BY <1>r, <2>2, <2>3, <2>11, <2>12
<1>5. ASSUME NEW t \in Thread, Keep(t) PROVE Settled
  BY <1>5, <1>s, OwnSame DEF Keep, queues, rings
<1>6. ASSUME NEW t \in Thread, Discard(t) PROVE Reordered
  <2> DEFINE a == <<"own", t>>
             c == i[t] + 1
             d == numTx[t]
  <2>1. i[t] \in Nat /\ numTx[t] \in Nat /\ frames[t] \in Seq(Frame)
    BY DEF TypeOK
  <2>2. i[t] < numTx[t] /\ numTx[t] <= Len(frames[t])
    BY <1>6 DEF Discard, Shape, Busy
  <2>3. c \in 1..Len(frames[t]) /\ d \in 1..Len(frames[t])
    BY <2>1, <2>2
  <2>4. /\ frames'[t] = Swap(frames[t], c, d)
        /\ pc[t] = "core" /\ pc'[t] = "core"
        /\ \A w \in Thread \ {t} : /\ frames'[w] = frames[w]
                                   /\ numTx'[w] = numTx[w] /\ pc'[w] = pc[w]
    BY <1>6 DEF Discard, TypeOK
  <2>5. Held[a] = frames[t] /\ Held'[a] = Swap(frames[t], c, d)
    BY <1>a, <2>4 DEF HeldIs
  <2>6. \A w \in Thread \ {t} : Own(w)' = Own(w)
    BY <2>4, OwnSame
  <2>7. UNCHANGED <<fq, cq, rx, tx, ring>>
    BY <1>6 DEF Discard, queues, rings
  <2>8. \A p \in Place \ {a} : Held'[p] = Held[p]
    BY <1>a, <2>6, <2>7, SamePlaces
  <2>9. a \in Place
    BY <1>p
  <2>10. /\ Len(Held'[a]) = Len(Held[a])
         /\ \A j \in 1..Len(Held[a]) :
              Held'[a][j] = IF j = d THEN Held[a][c] ELSE IF j = c THEN Held[a][d] ELSE Held[a][j]
    <3>1. /\ Len(Swap(frames[t], c, d)) = Len(frames[t])
          /\ \A j \in 1..Len(frames[t]) :
               Swap(frames[t], c, d)[j] = IF j = d THEN frames[t][c]
                                          ELSE IF j = c THEN frames[t][d] ELSE frames[t][j]
      <4>1. frames[t] \in Seq(Frame) /\ c \in 1..Len(frames[t]) /\ d \in 1..Len(frames[t])
        BY <2>1, <2>3
      <4> HIDE DEF c, d
      <4> QED
        BY ONLY <4>1 DEF Swap
    <3> HIDE DEF a, c, d
    <3> QED
      BY <2>5, <3>1
  <2>11. c \in 1..Len(Held[a]) /\ d \in 1..Len(Held[a])
    BY <2>3, <2>5
  <2> HIDE DEF a, c, d
  <2>12. Swapped(Place, Held, Held', a, c, d) /\ c \in Nat /\ d \in Nat
    BY <2>8, <2>10, <2>11 DEF Swapped
  <2> QED
    BY <2>9, <2>12 DEF Reordered
<1>7. ASSUME NEW t \in Thread, Send(t) PROVE Passed
  <2> DEFINE a == <<"own", t>>
             b == <<"tx", t>>
             s == Taken(frames[t], numTx[t])
  <2>1. frames[t] \in Seq(Frame) /\ numTx[t] \in Nat /\ tx[t] \in Seq(Frame)
    BY DEF TypeOK
  <2>2. numTx[t] \in 0..Len(frames[t])
    BY <1>7, <2>1 DEF Send, Shape, Busy
  <2>3. s \in Seq(Frame) /\ Len(s) = numTx[t] /\ \A k \in 1..numTx[t] : s[k] = frames[t][k]
    BY <2>1, <2>2, TakenFacts
  <2>4. Produce(tx[t], s) = tx[t] \o s
    <3>1. t \in Worker /\ pc[t] = "core"
      BY <1>7 DEF Send, Shape
    <3>2. Len(tx[t]) + Len(s) <= QueueSize
      BY <1>f, <2>3, <3>1 DEF ProduceFits
    <3> HIDE DEF s
    <3> QED
      BY <3>2 DEF Produce
  <2>5. /\ tx'[t] = tx[t] \o s /\ pc[t] = "core" /\ pc'[t] = "return"
        /\ \A w \in Thread \ {t} : tx'[w] = tx[w] /\ pc'[w] = pc[w]
    BY <1>7, <2>4 DEF Send, Goto, TypeOK
  <2>6. Held[a] = frames[t]
    BY <1>a, <2>5 DEF HeldIs
  <2>7. Held'[a] = After(frames[t], numTx[t])
    <3>1. Own(t)' = After(frames[t], numTx[t])
      BY <1>7, <2>5 DEF Own, Send, batches
    <3> QED
      BY <1>a, <3>1 DEF HeldIs
  <2>8. Held'[b] = Held[b] \o s
    BY <1>a, <2>5 DEF HeldIs
  <2>9. \A w \in Thread \ {t} : Own(w)' = Own(w)
    BY <1>7, <2>5, OwnSame DEF Send, batches
  <2>10. UNCHANGED <<fq, cq, rx, ring>>
    BY <1>7 DEF Send, rings
  <2>11. \A p \in Place \ {a, b} : Held'[p] = Held[p]
    BY <1>a, <2>5, <2>9, <2>10, SamePlaces
  <2>12. a \in Place /\ b \in Place /\ a # b
    BY <1>p
  <2> HIDE DEF a, b, s
  <2>13. Handed(Place, Held, Held', a, b, numTx[t], s)
    BY <2>2, <2>3, <2>6, <2>7, <2>8, <2>11, <2>12 DEF Handed
  <2> QED
    BY <1>r, <2>1, <2>3, <2>12, <2>13
<1>8. ASSUME NEW t \in Thread, Push(t) PROVE Passed
  <2> DEFINE a == <<"own", t>>
             b == <<"ring", t>>
             o == After(frames[t], numTx[t])
             r == PushSlice(t, o)
  <2>1. ring[t] \in Seq(Frame) /\ stale[t] \in Nat
    BY DEF TypeOK
  <2>2. /\ ring'[t] = ring[t] \o r /\ pc[t] = "return" /\ pc'[t] \notin Busy
        /\ \A w \in Thread \ {t} : /\ ring'[w] = ring[w] /\ pc'[w] = pc[w]
                                   /\ frames'[w] = frames[w] /\ numTx'[w] = numTx[w]
    BY <1>8 DEF Push, ForgetBatch, Empty, Goto, TypeOK, Busy
  <2>3. Own(t) = o /\ Held[a] = o /\ o \in Seq(Frame)
    BY <1>a, <2>2 DEF Own, HeldIs
  <2>4. r \in Seq(Frame) /\ Len(r) <= Len(o) /\ \A k \in 1..Len(r) : r[k] = o[k]
    <3> HIDE DEF o
    <3> QED
      BY <2>1, <2>3, PushSliceFacts
  <2>5. Held'[a] = After(o, Len(o))
    <3>1. Held'[a] = <<>>
      BY <1>a, <2>2 DEF HeldIs
    <3> HIDE DEF o, a
    <3> QED
      BY <2>3, <3>1, AfterAll
  <2>6. Held'[b] = Held[b] \o r
    BY <1>a, <2>2 DEF HeldIs
  <2>7. \A w \in Thread \ {t} : Own(w)' = Own(w)
    BY <2>2, OwnSame
  <2>8. UNCHANGED <<fq, cq, rx, tx>>
    BY <1>8 DEF Push, queues
  <2>9. \A p \in Place \ {a, b} : Held'[p] = Held[p]
    BY <1>a, <2>2, <2>7, <2>8, SamePlaces
  <2>10. a \in Place /\ b \in Place /\ a # b
    BY <1>p
  <2>11. Short(a, Len(r), Len(o))
    <3>0. t \in Sender /\ Pushes(t)
      BY <1>8 DEF Push, Goto, Pushes, TypeOK
    <3>1. Held[b] = ring[t]
      BY <1>a DEF HeldIs
    <3>s. Len(r) = Len(o) \/ Len(o) - Len(r) <= stale[t]
      <4> HIDE DEF o, a, b
      <4>2. Len(o) + Len(ring[t]) <= FrameCount
        BY <1>b, <1>c, <2>3, <2>10, <3>1, TwoFit
      <4>4. FrameCount \in Nat /\ RingCap \in Nat /\ FrameCount <= RingCap
        BY UmemAssumption, FS_CardinalityType DEF FrameCount
      <4>5. Len(o) \in Nat /\ Len(ring[t]) \in Nat
        BY <2>1, <2>3
      <4> DEFINE room == RingCap - stale[t] - Len(ring[t])
      <4>6. room \in Int /\ Len(o) - room <= stale[t]
        BY <2>1, <4>2, <4>4, <4>5
      <4>7. CASE Len(o) <= room
        <5>1. r = Taken(o, Len(o)) /\ Len(o) \in 0..Len(o)
          BY <4>5, <4>7 DEF PushSlice
        <5> QED
          BY <2>3, <5>1, TakenFacts
      <4>8. CASE ~(Len(o) <= room) /\ room >= 0
        <5>1. r = Taken(o, room) /\ room \in 0..Len(o)
          BY <4>5, <4>6, <4>8 DEF PushSlice
        <5>2. Len(r) = room
          BY <2>3, <5>1, TakenFacts
        <5> QED
          BY <4>6, <5>2
      <4>9. CASE ~(Len(o) <= room) /\ room < 0
        <5>1. Len(o) <= stale[t]
          BY <2>1, <4>2, <4>4, <4>5, <4>9
        <5>2. Len(r) \in Nat
          BY <2>4
        <5> QED
          BY <2>1, <4>5, <5>1, <5>2
      <4> QED
        BY <4>5, <4>6, <4>7, <4>8, <4>9
    <3> QED
      BY <3>0, <3>s DEF Short
  <2> HIDE DEF a, b, o, r
  <2>12. Len(o) \in Nat
    BY <2>3
  <2>13. Handed(Place, Held, Held', a, b, Len(o), r)
    BY <2>3, <2>4, <2>5, <2>6, <2>9, <2>10, <2>12 DEF Handed
  <2> QED
    BY <1>w, <2>4, <2>10, <2>11, <2>12, <2>13
<1>9. ASSUME NEW t \in Thread, Complete(t) PROVE Passed
  <2> DEFINE a == <<"cq", Mediator>>
             b == <<"own", t>>
  <2>1. PICK n \in Consumable(cq, FrameCount - Len(frames[t])) :
          /\ frames' = [frames EXCEPT ![t] = frames[t] \o Taken(cq, n)]
          /\ cq' = After(cq, n)
    BY <1>9 DEF Complete
  <2>2. n \in 0..Len(cq) /\ n \in Nat /\ cq \in Seq(Frame) /\ frames[t] \in Seq(Frame)
        /\ numTx[t] \in Nat
    BY <2>1 DEF Consumable, TypeOK
  <2>3. /\ Taken(cq, n) \in Seq(Frame)
        /\ Len(Taken(cq, n)) = n
        /\ \A k \in 1..n : Taken(cq, n)[k] = cq[k]
    BY <2>2, TakenFacts
  <2>4. /\ frames'[t] = frames[t] \o Taken(cq, n) /\ numTx' = numTx
        /\ pc[t] = "return" /\ pc'[t] = "refill"
        /\ \A w \in Thread \ {t} : frames'[w] = frames[w] /\ pc'[w] = pc[w]
    BY <1>9, <2>1 DEF Complete, Goto, TypeOK
  <2>5. numTx[t] \in 0..Len(frames[t])
    BY <2>2, <2>4 DEF Shape, Busy
  <2>6. Held[a] = cq /\ Held'[a] = After(Held[a], n)
    BY <1>a, <2>1 DEF HeldIs
  <2>7. Held'[b] = Held[b] \o Taken(cq, n)
    <3>1. Own(t) = After(frames[t], numTx[t]) /\ Own(t)' = After(frames[t] \o Taken(cq, n), numTx[t])
      BY <2>4 DEF Own
    <3>2. Own(t)' = Own(t) \o Taken(cq, n)
      BY <2>2, <2>3, <2>5, <3>1, AfterConcat
    <3> QED
      BY <1>a, <3>2 DEF HeldIs
  <2>8. \A w \in Thread \ {t} : Own(w)' = Own(w)
    BY <2>4, OwnSame
  <2>9. UNCHANGED <<fq, rx, tx, ring>>
    BY <1>9 DEF Complete, rings
  <2>10. \A p \in Place \ {a, b} : Held'[p] = Held[p]
    <3>1. \A w \in Thread : <<"own", w>> \notin {a, b} => Own(w)' = Own(w)
      BY <2>8
    <3>2. \A w \in Thread : rx'[w] = rx[w] /\ tx'[w] = tx[w] /\ ring'[w] = ring[w]
      BY <2>9
    <3>3. <<"cq", Mediator>> \in {a, b} /\ fq' = fq
      BY <2>9
    <3> HIDE DEF a, b
    <3> QED
      BY <1>a, <3>1, <3>2, <3>3, SamePlaces
  <2>11. a \in Place /\ b \in Place /\ a # b
    BY <1>p
  <2> HIDE DEF a, b
  <2>12. Handed(Place, Held, Held', a, b, n, Taken(cq, n))
    BY <2>2, <2>3, <2>6, <2>7, <2>10, <2>11 DEF Handed
  <2> QED
    BY <1>r, <2>2, <2>3, <2>11, <2>12
<1>10. ASSUME NEW t \in Thread, Refill(t) PROVE Passed
  <2> DEFINE a == <<"own", t>>
             b == <<"fq", Mediator>>
             o == After(frames[t], numTx[t])
  <2>1. fq \in Seq(Frame)
    BY DEF TypeOK
  <2>2. /\ fq' = Produce(fq, o) /\ pc[t] = "refill" /\ pc'[t] \notin Busy
        /\ \A w \in Thread \ {t} : /\ pc'[w] = pc[w] /\ frames'[w] = frames[w]
                                   /\ numTx'[w] = numTx[w]
    BY <1>10 DEF Refill, ForgetBatch, Empty, Goto, TypeOK, Busy
  <2>3. Own(t) = o /\ Held[a] = o /\ o \in Seq(Frame)
    BY <1>a, <2>2 DEF Own, HeldIs
  <2>4. Produce(fq, o) = fq \o o
    <3>1. Len(fq) + Len(Own(t)) <= QueueSize
      BY <1>10, <1>f DEF Refill, ProduceFits
    <3>2. Len(fq) + Len(o) <= QueueSize
      BY <2>3, <3>1
    <3> HIDE DEF o
    <3> QED
      BY <3>2 DEF Produce
  <2>5. Held'[a] = After(o, Len(o))
    <3>1. Held'[a] = <<>>
      BY <1>a, <2>2 DEF HeldIs
    <3> HIDE DEF o, a
    <3> QED
      BY <2>3, <3>1, AfterAll
  <2>6. Held'[b] = Held[b] \o o
    BY <1>a, <2>2, <2>4 DEF HeldIs
  <2>7. \A w \in Thread \ {t} : Own(w)' = Own(w)
    BY <2>2, OwnSame
  <2>8. UNCHANGED <<cq, rx, tx, ring>>
    BY <1>10 DEF Refill
  <2>9. \A p \in Place \ {a, b} : Held'[p] = Held[p]
    <3>1. \A w \in Thread : <<"own", w>> \notin {a, b} => Own(w)' = Own(w)
      BY <2>7
    <3>2. \A w \in Thread : rx'[w] = rx[w] /\ tx'[w] = tx[w] /\ ring'[w] = ring[w]
      BY <2>8
    <3>3. <<"fq", Mediator>> \in {a, b} /\ cq' = cq
      BY <2>8
    <3> HIDE DEF a, b
    <3> QED
      BY <1>a, <3>1, <3>2, <3>3, SamePlaces
  <2>10. a \in Place /\ b \in Place /\ a # b
    BY <1>p
  <2> HIDE DEF a, b, o
  <2>11. Len(o) \in Nat
    BY <2>3
  <2>12. Handed(Place, Held, Held', a, b, Len(o), o)
    BY <2>3, <2>5, <2>6, <2>9, <2>10, <2>11 DEF Handed
  <2> QED
    BY <1>r, <2>3, <2>10, <2>11, <2>12
<1>11. ASSUME NEW t \in Thread, Stop(t) PROVE Torn
  <2>1. CloseSocket(t) /\ UNCHANGED <<fq, cq, ring>>
    BY <1>11 DEF Stop, rings
  <2>2. /\ pc'[t] \notin Busy
        /\ \A w \in Thread \ {t} : pc'[w] = pc[w]
    BY <1>11 DEF Stop, Goto, TypeOK, Busy
  <2>3. Own(t)' = <<>>
    BY <1>a, <2>2 DEF HeldIs
  <2>4. \A w \in Thread \ {t} : Own(w)' = Own(w)
    BY <1>11, <2>2, OwnSame DEF Stop, batches
  <2>5. Lossy' /\ Leaves(t)
    BY <1>11 DEF Stop, Goto, TypeOK, Lossy, Leaves
  <2> QED
    BY <1>q, <2>1, <2>3, <2>4, <2>5
<1>12. ASSUME NEW s \in Sender, SkipRing(s) PROVE Settled
  BY <1>12, <1>s, OwnSame DEF SkipRing, queues, batches
<1>13. ASSUME NEW s \in Sender, DrainRing(s) PROVE Passed
  <2> DEFINE a == <<"ring", s>>
             b == <<"fq", Mediator>>
             R == ring[s]
  <2>1. s \in Thread /\ R \in Seq(Frame) /\ fq \in Seq(Frame)
    BY TaskFacts DEF TypeOK
  <2>2. PICK k \in 1..Len(R) : fq' = Produce(Produce(fq, Taken(R, k)), After(R, k))
    BY <1>13 DEF DrainRing
  <2>3. /\ ring'[s] = <<>> /\ \A w \in Thread \ {s} : ring'[w] = ring[w]
        /\ pc[Mediator] \notin Busy /\ pc'[Mediator] \notin Busy
        /\ \A w \in Thread \ {Mediator} : pc'[w] = pc[w]
    BY <1>13, <2>1, TaskFacts DEF DrainRing, Empty, Goto, TypeOK, Busy
  <2>4. \A w \in Thread : Own(w)' = Own(w)
    <3>1. Own(Mediator)' = <<>> /\ Own(Mediator) = <<>>
      BY <1>a, <2>3, TaskFacts DEF HeldIs
    <3>2. \A w \in Thread \ {Mediator} : Own(w)' = Own(w)
      BY <1>13, <2>3, OwnSame DEF DrainRing, batches
    <3> QED
      BY <3>1, <3>2
  <2>5. \A p \in Place \ {a, b} : Held'[p] = Held[p]
    <3>1. \A w \in Thread : <<"ring", w>> \notin {a, b} => ring'[w] = ring[w]
      BY <2>3
    <3>2. \A w \in Thread : rx'[w] = rx[w] /\ tx'[w] = tx[w]
      BY <1>13 DEF DrainRing
    <3>3. <<"fq", Mediator>> \in {a, b} /\ cq' = cq
      BY <1>13 DEF DrainRing
    <3> HIDE DEF a, b
    <3> QED
      BY <1>a, <2>4, <3>1, <3>2, <3>3, SamePlaces
  <2>6. a \in Place /\ b \in Place /\ a # b
    BY <1>p, <2>1
  <2>7. Held[a] = R /\ Held'[a] = <<>> /\ Held[b] = fq /\ Held'[b] = fq'
    BY <1>a, <2>1, <2>3 DEF HeldIs
  <2> HIDE DEF a, b, R
  <2>8. Held'[a] = After(R, Len(R)) /\ Len(R) \in Nat
    BY <2>1, <2>7, AfterAll
  <2>9. k \in 0..Len(R) /\ k \in Nat
    BY <2>1
  <2>10. /\ Taken(R, k) \in Seq(Frame) /\ Len(Taken(R, k)) = k
         /\ \A j \in 1..k : Taken(R, k)[j] = R[j]
    BY <2>1, <2>9, TakenFacts
  <2>11. /\ After(R, k) \in Seq(Frame) /\ Len(After(R, k)) = Len(R) - k
         /\ \A j \in 1..(Len(R) - k) : After(R, k)[j] = R[j + k]
    BY <2>1, <2>9, AfterFacts
  <2>12. fq' = fq \o R
    <3> DEFINE P1 == Taken(R, k)
               P2 == After(R, k)
    <3>0. QueueSize \in Nat /\ Len(fq) \in Nat /\ Len(R) \in Nat /\ k \in Nat /\ k <= Len(R)
      BY <2>1, <2>9, UmemAssumption
    <3>1. Len(fq) + Len(R) <= QueueSize
      BY <1>13, <1>f DEF DrainRing, ProduceFits, R
    <3>2. Len(P1) = k /\ Len(P2) = Len(R) - k
      BY <2>10, <2>11
    <3>s. P1 \in Seq(Frame) /\ P2 \in Seq(Frame)
      BY <2>10, <2>11
    <3>3. P1 \o P2 = R
      BY <2>1, <2>9 DEF Taken, After
    <3> HIDE DEF P1, P2
    <3>4. Produce(fq, P1) = fq \o P1
      BY <3>0, <3>1, <3>2 DEF Produce
    <3>5. Len(fq \o P1) + Len(P2) <= QueueSize
      <4>1. Len(fq \o P1) = Len(fq) + k
        BY <2>1, <3>2, <3>s, ConcatFacts
      <4> QED
        BY <3>0, <3>1, <3>2, <4>1
    <3>6. Produce(fq \o P1, P2) = (fq \o P1) \o P2
      BY <3>5 DEF Produce
    <3>7. (fq \o P1) \o P2 = fq \o (P1 \o P2)
      BY ONLY <2>1, <3>s, ConcatAssociative
    <3> QED
      BY <2>2, <3>3, <3>4, <3>6, <3>7 DEF P1, P2
  <2>13. Handed(Place, Held, Held', a, b, Len(R), R)
    BY <2>5, <2>6, <2>7, <2>8, <2>12 DEF Handed
  <2> QED
    BY <1>r, <2>1, <2>6, <2>8, <2>13
<1>t. ASSUME NEW l, Goto(Mediator, l), pc[Mediator] \notin Busy, l \notin Busy \/ l = "return",
             UNCHANGED <<fq, cq, rx, tx, ring>>, UNCHANGED batches
      PROVE  Settled
  <2>1. pc'[Mediator] = l /\ \A w \in Thread \ {Mediator} : pc'[w] = pc[w]
    BY <1>t, TaskFacts DEF Goto, TypeOK
  <2>2. Own(Mediator) = <<>> /\ frames[Mediator] = <<>> /\ numTx[Mediator] = 0
    BY <1>a, <1>t, TaskFacts DEF HeldIs, Shape
  <2>3. Own(Mediator)' = <<>>
    BY <1>t, <2>1, <2>2 DEF Own, After, batches
  <2>4. \A w \in Thread \ {Mediator} : Own(w)' = Own(w)
    BY <1>t, <2>1, OwnSame DEF batches
  <2> QED
    BY <1>s, <1>t, <2>2, <2>3, <2>4
<1>14. ASSUME NEW s \in Sender, AdvanceRing(s) PROVE Settled
  BY <1>14, <1>t DEF AdvanceRing, queues, Busy
<1>15. ASSUME EndDrain PROVE Settled
  <2>1. PICK l \in {"top", "return"} : Goto(Mediator, l)
    BY <1>15 DEF EndDrain
  <2> QED
    BY <1>15, <1>t, <2>1 DEF EndDrain, queues, rings, Busy
<1>16. ASSUME ExtraLoop PROVE Settled
  BY <1>16, <1>t DEF ExtraLoop, queues, Busy
<1>17. ASSUME Kill PROVE Settled
  BY <1>17, <1>s, OwnSame DEF Kill, queues, rings, batches
<1>18. ASSUME UNCHANGED vars PROVE Settled
  BY <1>18, <1>s, OwnSame DEF vars, queues, rings, batches
<1>19. ASSUME NEW t \in Thread, Sleep(t) PROVE Settled
  <2>1. /\ pc[t] \notin Busy /\ pc'[t] \notin Busy
        /\ \A w \in Thread \ {t} : pc'[w] = pc[w]
    BY <1>19 DEF Sleep, Goto, TypeOK, Busy
  <2>2. Own(t) = <<>> /\ frames[t] = <<>> /\ numTx[t] = 0
    BY <1>a, <2>1 DEF HeldIs, Shape
  <2>3. Own(t)' = <<>>
    BY <1>19, <2>1, <2>2 DEF Sleep, Own, After, batches
  <2>4. \A w \in Thread \ {t} : Own(w)' = Own(w)
    BY <1>19, <2>1, OwnSame DEF Sleep, batches
  <2> QED
    BY <1>19, <1>s, <2>2, <2>3, <2>4 DEF Sleep, queues, rings
<1> QED
  BY <1>1, <1>2, <1>3, <1>4, <1>5, <1>6, <1>7, <1>8, <1>9, <1>10, <1>11,
     <1>12, <1>13, <1>14, <1>15, <1>16, <1>17, <1>18, <1>19
     DEF Next, Batch, Credit, Drain

Somewhere(P, G, f) == \E q \in P : \E l \in 1..Len(G[q]) : G[q][l] = f

\* A hand-over loses at most the entries given up and not taken.
LEMMA MovedCovers ==
  ASSUME NEW P, NEW S, NEW H \in [P -> Seq(S)], NEW G \in [P -> Seq(S)],
         NEW a \in P, NEW b \in P, NEW n \in Nat, NEW m \in Nat, Moved(P, H, G, a, b, n, m),
         NEW p \in P, NEW k \in 1..Len(H[p]), ~(p = a /\ k \in n+1..m)
  PROVE  Somewhere(P, G, H[p][k])
<1> USE DEF Moved, Somewhere
<1>0. /\ Len(H[a]) \in Nat /\ Len(H[b]) \in Nat /\ k \in Nat
      /\ Len(G[a]) \in Nat /\ Len(G[b]) \in Nat
  OBVIOUS
<1>1. CASE p = a /\ k <= n
  <2>1. Len(H[b]) + k \in 1..Len(G[b]) /\ k \in 1..n
    BY <1>0, <1>1
  <2>2. G[b][Len(H[b]) + k] = H[p][k]
    BY <1>1, <2>1
  <2> QED
    BY <2>1, <2>2
<1>2. CASE p = a /\ ~(k <= n)
  <2>1. k - m \in 1..Len(G[a]) /\ m + (k - m) = k
    BY <1>0, <1>2
  <2>2. G[a][k - m] = H[a][m + (k - m)]
    BY <2>1
  <2> QED
    BY <1>2, <2>1, <2>2
<1>3. CASE p = b
  <2>1. k \in 1..Len(G[b]) /\ G[b][k] = H[b][k]
    BY <1>0, <1>3
  <2> QED
    BY <1>3, <2>1
<1>4. CASE p # a /\ p # b
  BY <1>4
<1> QED
  BY <1>1, <1>2, <1>3, <1>4

\* Reordering one place loses nothing.
LEMMA SwappedCovers ==
  ASSUME NEW P, NEW S, NEW H \in [P -> Seq(S)], NEW G \in [P -> Seq(S)],
         NEW a \in P, NEW c, NEW d, Swapped(P, H, G, a, c, d),
         NEW p \in P, NEW k \in 1..Len(H[p])
  PROVE  Somewhere(P, G, H[p][k])
<1>1. CASE p # a
  BY <1>1 DEF Swapped, Somewhere
<1>2. CASE p = a
  <2>1. /\ c \in 1..Len(H[a]) /\ d \in 1..Len(H[a]) /\ Len(G[a]) = Len(H[a])
        /\ \A j \in 1..Len(H[a]) :
             G[a][j] = IF j = d THEN H[a][c] ELSE IF j = c THEN H[a][d] ELSE H[a][j]
    BY DEF Swapped
  <2>2. PICK j \in 1..Len(H[a]) : j = IF k = d THEN c ELSE IF k = c THEN d ELSE k
    BY <1>2, <2>1
  <2>3. G[a][j] = H[a][k]
    BY <1>2, <2>1, <2>2
  <2> QED
    BY <1>2, <2>1, <2>2, <2>3 DEF Somewhere
<1> QED
  BY <1>1, <1>2

\* No step of any thread or of the kernel puts a descriptor in two places.
LEMMA NextExclusive ==
  TypeOK /\ Shape /\ TypeOK' /\ Shape' /\ Exclusive /\ [Next]_vars => Exclusive'
<1> SUFFICES ASSUME TypeOK, Shape, TypeOK', Shape', Exclusive, [Next]_vars
             PROVE  Distinct(Place, Held')
  BY DEF Exclusive, Distinct
<1>1. Distinct(Place, Held)
  BY DEF Exclusive, Distinct
<1>2. Held \in [Place -> Seq(Frame)] /\ Held' \in [Place -> Seq(Frame)]
  BY HeldFacts, HeldFactsNext DEF HeldIs
<1>3. CASE Settled \/ Torn
  BY <1>1, <1>3, Shrink DEF Settled, Torn
<1>4. CASE Passed
  BY <1>1, <1>2, <1>4, Transfer DEF Passed
<1>5. CASE Reordered
  BY <1>1, <1>2, <1>5, Permute DEF Reordered
<1> QED
  BY <1>3, <1>4, <1>5, NextMoves

\* However many threads there are, however they interleave with the kernel and
\* with each other, and whichever of them panic: no descriptor is ever in two
\* places, so no two parties use the same frame at the same time.
THEOREM DescriptorsExclusive == Spec => []Exclusive
<1>1. Spec => [](TypeOK /\ Shape)
  BY InitShape, NextShape, PTL DEF Spec
<1>2. Init => Exclusive
  BY InitExclusive
<1> QED
  BY <1>1, <1>2, NextExclusive, PTL DEF Spec

\* pulley ignores the counts that fq.produce and tx.produce_and_wakeup return,
\* and may: whatever is passed to them always fits, for every UMEM no larger
\* than its queues.
THEOREM ProduceAlwaysFits == Spec => []ProduceFits
<1>1. Spec => [](TypeOK /\ Shape)
  BY InitShape, NextShape, PTL DEF Spec
<1>2. Spec => []Exclusive
  BY DescriptorsExclusive
<1> QED
  BY <1>1, <1>2, ExclusiveFits, PTL

(***************************************************************************)
(* LossExplained and NoLeak.                                               *)
(***************************************************************************)

\* A known descriptor is in some place.
LEMMA KnownWhere == \A f : f \in Known <=> Somewhere(Place, Held, f)
BY DEF Known, Entries, Somewhere

\* The same, after a step.
LEMMA KnownWhereNext == \A f : f \in Known' <=> Somewhere(Place, Held', f)
BY DEF Known, Entries, Somewhere

\* A part of the entries n + 1 to m of a sequence is no larger than m - n.
LEMMA CutSize ==
  ASSUME NEW S, NEW s \in Seq(S), NEW n \in Nat, NEW m \in Nat, n <= m, NEW X,
         \A x \in X : \E k \in n+1..m : s[k] = x
  PROVE  Cardinality(X) <= m - n
<1> DEFINE I == n+1..m
           f == [k \in I |-> s[k]]
           R == {f[k] : k \in I}
<1>1. IsFiniteSet(I) /\ Cardinality(I) = m - n
  <2>1. n + 1 \in Int /\ m \in Int /\ (n + 1 > m => m - n = 0) /\ m - (n + 1) + 1 = m - n
    OBVIOUS
  <2> QED
    BY <2>1, FS_Interval
<1> HIDE DEF I
<1>2. f \in Surjection(I, R)
  BY DEF Surjection
<1>3. IsFiniteSet(R) /\ Cardinality(R) <= Cardinality(I)
  <2> HIDE DEF f, R
  <2> QED
    BY <1>1, <1>2, FS_Surjection
<1>4. X \subseteq R
  BY DEF I
<1>5. Cardinality(X) <= Cardinality(R)
  <2> HIDE DEF R
  <2> QED
    BY <1>3, <1>4, FS_Subset
<1>6. Cardinality(X) \in Nat /\ Cardinality(R) \in Nat
  <2> HIDE DEF R
  <2> QED
    BY <1>3, <1>4, FS_Subset, FS_CardinalityType
<1> HIDE DEF R
<1> QED
  BY <1>1, <1>3, <1>5, <1>6

\* LossExcused, with the reason a thread leaves.
LossTraced ==
  \E t \in Thread :
    /\ Losing \subseteq UNION {Entries(<<kind, t>>) : kind \in {"rx", "tx", "own"}}
    /\ (Leaves(t) /\ Lossy') \/ (Pushes(t) /\ Cardinality(Losing) <= stale[t])

\* What a step may lose.
LEMMA NextLoss ==
  TypeOK /\ Shape /\ TypeOK' /\ Shape' /\ Exclusive /\ [Next]_vars
    => Losing = {} \/ LossTraced
<1> SUFFICES ASSUME TypeOK, Shape, TypeOK', Shape', Exclusive, [Next]_vars
             PROVE  Losing = {} \/ LossTraced
  OBVIOUS
<1>1. Held \in [Place -> Seq(Frame)] /\ Held' \in [Place -> Seq(Frame)]
  BY HeldFacts, HeldFactsNext DEF HeldIs
<1>2. ASSUME NEW f \in Losing
      PROVE  /\ \E p \in Place : \E k \in 1..Len(Held[p]) : Held[p][k] = f
             /\ ~Somewhere(Place, Held', f)
  BY <1>2, KnownWhere, KnownWhereNext DEF Losing, Somewhere
<1>3. CASE Settled
  BY <1>2, <1>3 DEF Settled, Somewhere
<1>4. CASE Reordered
  <2>1. PICK a \in Place, c \in Nat, d \in Nat : Swapped(Place, Held, Held', a, c, d)
    BY <1>4 DEF Reordered
  <2>2. \A p \in Place : \A k \in 1..Len(Held[p]) : Somewhere(Place, Held', Held[p][k])
    BY ONLY <1>1, <2>1, SwappedCovers
  <2> QED
    BY <1>2, <2>2
<1>5. CASE Torn
  <2>1. PICK t \in Thread :
          /\ Leaves(t) /\ Lossy'
          /\ \A p \in Place : Held'[p] = Held[p] \/ (p \in Private(t) /\ Held'[p] = <<>>)
    BY <1>5 DEF Torn
  <2>2. ASSUME NEW f \in Losing
        PROVE  \E kind \in {"rx", "tx", "own"} : f \in Entries(<<kind, t>>)
    <3>1. PICK p \in Place : \E k \in 1..Len(Held[p]) : Held[p][k] = f
      BY <1>2, <2>2
    <3>2. Held'[p] # Held[p]
      BY <1>2, <2>2, <3>1 DEF Somewhere
    <3>3. p \in Private(t) /\ f \in Entries(p)
      BY <2>1, <3>1, <3>2 DEF Entries
    <3> QED
      BY <3>3 DEF Private
  <2> QED
    BY <2>1, <2>2 DEF LossTraced
<1>6. CASE Passed
  <2>1. PICK a \in Place, b \in Place, n \in Nat, m \in Nat :
          Moved(Place, Held, Held', a, b, n, m) /\ Short(a, n, m)
    BY <1>6 DEF Passed
  <2>2. \A p \in Place : \A k \in 1..Len(Held[p]) :
          ~(p = a /\ k \in n+1..m) => Somewhere(Place, Held', Held[p][k])
    BY ONLY <1>1, <2>1, MovedCovers
  <2>3. \A f \in Losing : \E k \in n+1..m : k \in 1..Len(Held[a]) /\ Held[a][k] = f
    BY <1>2, <2>2
  <2>4. CASE n = m
    <3>1. n+1..m = {}
      BY <2>4
    <3> QED
      BY <2>3, <3>1
  <2>5. CASE n # m
    <3>1. PICK t \in Sender : a = <<"own", t>> /\ Pushes(t) /\ m - n <= stale[t]
      BY <2>1, <2>5 DEF Short
    <3>2. t \in Thread /\ stale[t] \in Nat
      BY TaskFacts DEF TypeOK
    <3>3. Losing \subseteq Entries(<<"own", t>>)
      BY <2>3, <3>1 DEF Entries
    <3>4. Losing \subseteq UNION {Entries(<<kind, t>>) : kind \in {"rx", "tx", "own"}}
      BY <3>3
    <3>5. n <= m /\ m <= Len(Held[a]) /\ Held[a] \in Seq(Frame)
      BY <1>1, <2>1 DEF Moved
    <3>6. Cardinality(Losing) <= m - n
      BY ONLY <2>3, <3>5, CutSize, n \in Nat, m \in Nat
    <3>7. Cardinality(Losing) <= stale[t]
      <4>1. Losing \subseteq Frame
        BY <1>1, <2>3, <3>5
      <4>2. Cardinality(Losing) \in Nat
        BY <4>1, UmemAssumption, FS_Subset, FS_CardinalityType
      <4> QED
        BY <3>1, <3>2, <3>6, <4>2
    <3> QED
      BY <3>1, <3>2, <3>4, <3>7 DEF LossTraced
  <2> QED
    BY <2>4, <2>5
<1> QED
  BY <1>3, <1>4, <1>5, <1>6, NextMoves

\* However many threads there are and whichever of them panic: a descriptor is
\* lost only with a thread that leaves its loop, or because the mediator has
\* not advanced past the slots it read yet, and then at most one for each such
\* slot.
THEOREM LossesExplained == Spec => LossExplained
<1>1. Spec => [](TypeOK /\ Shape)
  BY InitShape, NextShape, PTL DEF Spec
<1>2. Spec => []Exclusive
  BY DescriptorsExclusive
<1>3. TypeOK /\ Shape /\ TypeOK' /\ Shape' /\ Exclusive /\ [Next]_vars
        => [Losing # {} => LossExcused]_vars
  BY NextLoss DEF LossTraced, LossExcused
<1> QED
  BY <1>1, <1>2, <1>3, PTL DEF Spec, LossExplained

\* A thread that panicked stays dead, and the broadcast is never taken back.
LEMMA LossyStays == TypeOK /\ Shape /\ Lossy /\ [Next]_vars => Lossy'
<1> SUFFICES ASSUME TypeOK, Shape, Lossy, [Next]_vars PROVE Lossy'
  OBVIOUS
<1>1. killed => killed'
  <2>1. killed' = killed \/ Kill
    BY DEF Next, KernelRx, KernelTx, Panic, Batch, Sleep, Poll, Keep, Discard, Send,
           Credit, Push, Complete, Refill, Stop, Drain, EndDrain, SkipRing, DrainRing,
           AdvanceRing, ExtraLoop, vars
  <2> QED
    BY <2>1 DEF Kill
<1>2. ASSUME NEW w \in Worker, pc[w] = "dead" PROVE pc'[w] = "dead"
  <2>0. w \in Thread /\ pc \in [Thread -> Label] /\ Mediator \in Thread
    BY TaskFacts DEF TypeOK
  <2>1. ASSUME NEW t \in Thread, NEW l, Goto(t, l), pc[t] # "dead" PROVE pc'[w] = "dead"
    BY <1>2, <2>0, <2>1 DEF Goto
  <2>2. ASSUME NEW t \in Worker, KernelRx(t) \/ KernelTx(t) \/ Panic(t) PROVE pc'[w] = "dead"
    BY <1>2, <2>1, <2>2, TaskFacts DEF KernelRx, KernelTx, Panic
  <2>3. ASSUME NEW t \in Thread, Batch(t) PROVE pc'[w] = "dead"
    BY <1>2, <2>1, <2>3 DEF Batch, Sleep, Poll, Keep, Discard, Send
  <2>4. ASSUME NEW t \in Thread, Push(t) \/ Complete(t) \/ Stop(t) PROVE pc'[w] = "dead"
    BY <1>2, <2>1, <2>4 DEF Push, Complete, Stop
  <2>5. ASSUME NEW t \in Thread, Refill(t) PROVE pc'[w] = "dead"
    BY <1>2, <2>1, <2>5 DEF Refill
  <2>6. ASSUME Drain PROVE pc'[w] = "dead"
    BY <1>2, <2>0, <2>1, <2>6 DEF Drain, EndDrain, SkipRing, DrainRing, AdvanceRing
  <2>7. ASSUME ExtraLoop \/ Kill \/ UNCHANGED vars PROVE pc'[w] = "dead"
    BY <1>2, <2>1, <2>7, TaskFacts DEF ExtraLoop, Kill, vars
  <2> QED
    BY <2>2, <2>3, <2>4, <2>5, <2>6, <2>7 DEF Next, Credit
<1> QED
  BY <1>1, <1>2 DEF Lossy

\* At first the fill queue holds every descriptor.
LEMMA InitKept == Init => NoLeak
<1> SUFFICES ASSUME Init, NEW f \in Frame PROVE f \in Known
  BY DEF NoLeak
<1>1. Held[<<"fq", Mediator>>] = fq /\ <<"fq", Mediator>> \in Place
  BY InitShape, HeldFacts, TaskFacts DEF HeldIs, Place
<1>2. FrameCount \in Nat
  BY UmemAssumption, FS_CardinalityType DEF FrameCount
<1>3. fq \in Seq(Frame) /\ DOMAIN fq = 1..FrameCount
  BY InitShape DEF Init, TypeOK
<1>4. Len(fq) = FrameCount
  BY <1>2, <1>3
<1>5. \E k \in 1..FrameCount : fq[k] = f
  BY DEF Init
<1>6. Somewhere(Place, Held, f)
  BY <1>1, <1>4, <1>5 DEF Somewhere
<1> QED
  BY <1>6, KnownWhere

\* dataplane_self_mediate_solo keeps every descriptor: with one thread, which
\* hands its own descriptors back, none is ever lost before the thread leaves.
\* With more threads TLC finds the loss that LossesExplained allows for.
THEOREM SoloKeepsAll ==
  ASSUME UmemMode = "first-thread", Worker = {First}
  PROVE  Spec => []NoLeak
<1>1. Spec => [](TypeOK /\ Shape)
  BY InitShape, NextShape, PTL DEF Spec
<1>2. Spec => []Exclusive
  BY DescriptorsExclusive
<1>3. Sender = {}
  BY DEF Sender, Mediator
<1>4. TypeOK /\ Shape /\ TypeOK' /\ Shape' /\ Exclusive /\ NoLeak /\ [Next]_vars => NoLeak'
  <2> SUFFICES ASSUME TypeOK, Shape, TypeOK', Shape', Exclusive, NoLeak, [Next]_vars, ~Lossy'
               PROVE  Frame \subseteq Known'
    BY DEF NoLeak, Lossy
  <2>1. Frame \subseteq Known
    BY LossyStays DEF NoLeak, Lossy
  <2>2. ~LossTraced
    BY <1>3 DEF LossTraced, Pushes
  <2>3. Losing = {}
    BY <2>2, NextLoss
  <2> QED
    BY <2>1, <2>3 DEF Losing
<1> QED
  BY <1>1, <1>2, <1>4, InitKept, PTL DEF Spec

(***************************************************************************)
(* BatchPartition.  Shape bounds the three blocks of a batch; it remains   *)
(* to follow the verdicts of its frames through Poll, Keep and Discard.    *)
(***************************************************************************)
Walking(t) == pc[t] \in {"core", "return"}

\* What the walk has said of entry k of a batch.
Said(t, k) == IF k <= i[t] THEN "tx" ELSE IF k <= numTx[t] THEN "none" ELSE "drop"

Walked ==
  \A t \in Worker : Walking(t) =>
    \A k \in 1..Len(frames[t]) : verdict[t][frames[t][k]] = Said(t, k)

\* A batch lists a descriptor once.
LEMMA BatchDistinct ==
  ASSUME TypeOK, Shape, Exclusive, NEW t \in Worker, pc[t] = "core",
         NEW k \in 1..Len(frames[t]), NEW l \in 1..Len(frames[t]),
         frames[t][k] = frames[t][l]
  PROVE  k = l
<1>1. t \in Thread /\ HeldIs
  BY TaskFacts, HeldFacts
<1>2. Held[<<"own", t>>] = frames[t] /\ <<"own", t>> \in Place
  BY <1>1 DEF HeldIs, Place
<1>3. Distinct(Place, Held)
  BY DEF Exclusive, Distinct
<1> QED
  BY <1>2, <1>3, DistinctUse

\* A batch whose frames were all just received has no verdicts yet.
LEMMA PollWalked ==
  ASSUME TypeOK, Shape, NEW t \in Worker, Poll(t)
  PROVE  \A k \in 1..Len(frames'[t]) : verdict'[t][frames'[t][k]] = Said(t, k)'
<1>1. t \in Thread /\ rx[t] \in Seq(Frame)
  BY TaskFacts DEF TypeOK
<1>2. PICK n \in Consumable(rx[t], FrameCount) :
        /\ frames' = [frames EXCEPT ![t] = Taken(rx[t], n)]
        /\ numTx' = [numTx EXCEPT ![t] = n]
  BY DEF Poll
<1>3. n \in 0..Len(rx[t])
  BY <1>2 DEF Consumable
<1>4. i[t] = 0 /\ verdict[t] = [f \in Frame |-> "none"]
  BY <1>1 DEF Poll, Shape, Busy
<1>5. i' = i /\ verdict' = verdict
  BY DEF Poll
<1>6. frames'[t] = Taken(rx[t], n) /\ numTx'[t] = n
  BY <1>1, <1>2 DEF TypeOK
<1>7. frames'[t] \in Seq(Frame) /\ Len(frames'[t]) = n
  BY <1>1, <1>3, <1>6, TakenFacts
<1>8. ASSUME NEW k \in 1..n
      PROVE  verdict'[t][frames'[t][k]] = "none" /\ k <= numTx'[t] /\ ~(k <= i'[t])
  <2>1. frames'[t][k] \in Frame
    BY <1>7, <1>8
  <2> QED
    BY <1>3, <1>4, <1>5, <1>6, <2>1
<1> QED
  BY <1>7, <1>8 DEF Said

\* Keep decides the first undecided frame and no other.
LEMMA KeepWalked ==
  ASSUME TypeOK, Shape, Exclusive, NEW t \in Worker, Keep(t),
         \A k \in 1..Len(frames[t]) : verdict[t][frames[t][k]] = Said(t, k)
  PROVE  \A k \in 1..Len(frames'[t]) : verdict'[t][frames'[t][k]] = Said(t, k)'
<1> DEFINE h == i[t] + 1
           g == frames[t]
<1>1. t \in Thread /\ g \in Seq(Frame) /\ i[t] \in Nat /\ numTx[t] \in Nat
  BY TaskFacts DEF TypeOK
<1>2. pc[t] = "core" /\ i[t] < numTx[t] /\ numTx[t] <= Len(g)
  BY <1>1 DEF Keep, Shape, Busy
<1>3. h \in 1..Len(g) /\ Len(g) \in Nat
  BY <1>1, <1>2
<1>4. frames' = frames /\ numTx' = numTx /\ i'[t] = h
  BY <1>1 DEF Keep, TypeOK
<1>5. verdict'[t] = [verdict[t] EXCEPT ![g[h]] = "tx"] /\ verdict[t] \in [Frame -> {"none", "tx", "drop"}]
  BY <1>1 DEF Keep, TypeOK
<1>6. ASSUME NEW k \in 1..Len(g)
      PROVE  verdict'[t][g[k]] = IF k <= h THEN "tx"
                                 ELSE IF k <= numTx[t] THEN "none" ELSE "drop"
  <2>1. g[k] \in Frame /\ g[h] \in Frame
    BY <1>1, <1>3
  <2>2. CASE k = h
    BY <1>1, <1>5, <2>1, <2>2
  <2>3. CASE k # h
    <3>1. g[k] # g[h]
      BY <1>2, <1>3, <2>3, BatchDistinct
    <3>2. verdict'[t][g[k]] = verdict[t][g[k]]
      BY <1>5, <2>1, <3>1
    <3>3. k <= i[t] <=> k <= h
      BY <1>1, <2>3
    <3> QED
      BY <3>2, <3>3 DEF Said
  <2> QED
    BY <2>2, <2>3
<1> QED
  BY <1>4, <1>6 DEF Said

\* Discard moves the frame it decides to the front of the dropped block and
\* the last undecided frame to the place of the one it decided.
LEMMA DiscardWalked ==
  ASSUME TypeOK, Shape, Exclusive, NEW t \in Worker, Discard(t),
         \A k \in 1..Len(frames[t]) : verdict[t][frames[t][k]] = Said(t, k)
  PROVE  \A k \in 1..Len(frames'[t]) : verdict'[t][frames'[t][k]] = Said(t, k)'
<1> DEFINE h == i[t] + 1
           n == numTx[t]
           g == frames[t]
<1>1. t \in Thread /\ g \in Seq(Frame) /\ i[t] \in Nat /\ n \in Nat
  BY TaskFacts DEF TypeOK
<1>2. pc[t] = "core" /\ i[t] < n /\ n <= Len(g)
  BY <1>1 DEF Discard, Shape, Busy
<1>3. h \in 1..Len(g) /\ n \in 1..Len(g) /\ Len(g) \in Nat
  BY <1>1, <1>2
<1>4. frames'[t] = Swap(g, h, n) /\ numTx'[t] = n - 1 /\ i' = i
  BY <1>1 DEF Discard, TypeOK
<1>5. /\ verdict'[t] = [verdict[t] EXCEPT ![g[h]] = "drop"]
      /\ verdict[t] \in [Frame -> {"none", "tx", "drop"}]
  BY <1>1 DEF Discard, TypeOK
<1>6. /\ Len(frames'[t]) = Len(g)
      /\ \A j \in 1..Len(g) :
           frames'[t][j] = IF j = n THEN g[h] ELSE IF j = h THEN g[n] ELSE g[j]
  <2> HIDE DEF h, n, g
  <2>1. /\ Len(Swap(g, h, n)) = Len(g)
        /\ \A j \in 1..Len(g) :
             Swap(g, h, n)[j] = IF j = n THEN g[h] ELSE IF j = h THEN g[n] ELSE g[j]
    BY <1>1, <1>3 DEF Swap
  <2> QED
    BY <1>4, <2>1
<1>7. \A j \in 1..Len(g) : g[j] \in Frame
  BY <1>1
<1>8. ASSUME NEW j \in 1..Len(g), j # h
      PROVE  verdict'[t][g[j]] = Said(t, j)
  <2>1. g[j] # g[h]
    BY <1>2, <1>3, <1>8, BatchDistinct
  <2> QED
    BY <1>3, <1>5, <1>7, <2>1
<1>9. verdict'[t][g[h]] = "drop"
  BY <1>3, <1>5, <1>7
<1>10. ASSUME NEW k \in 1..Len(g)
       PROVE  verdict'[t][frames'[t][k]] = IF k <= i[t] THEN "tx"
                                           ELSE IF k <= n - 1 THEN "none" ELSE "drop"
  <2>1. CASE k = n
    <3>1. ~(k <= i[t]) /\ ~(k <= n - 1)
      BY <1>1, <1>2, <2>1
    <3> QED
      BY <1>6, <1>9, <2>1, <3>1
  <2>2. CASE k # n /\ k = h
    <3>1. n # h /\ ~(k <= i[t]) /\ k <= n - 1 /\ ~(n <= i[t])
      BY <1>1, <1>2, <2>2
    <3>2. verdict'[t][g[n]] = "none"
      <4>1. verdict'[t][g[n]] = Said(t, n)
        BY <1>3, <1>8, <3>1
      <4>2. n <= n
        BY <1>1
      <4> QED
        BY <3>1, <4>1, <4>2 DEF Said
    <3> QED
      BY <1>6, <2>2, <3>1, <3>2
  <2>3. CASE k # n /\ k # h
    <3>1. k <= n <=> k <= n - 1
      BY <1>1, <2>3
    <3>2. verdict'[t][g[k]] = Said(t, k)
      BY <1>8, <2>3
    <3>3. frames'[t][k] = g[k]
      BY <1>6, <2>3
    <3> QED
      BY <3>1, <3>2, <3>3 DEF Said
  <2> QED
    BY <2>1, <2>2, <2>3
<1> QED
  BY <1>4, <1>6, <1>10 DEF Said

\* The batch of t is as it was, and t was already walking it.
Untouched(t) ==
  /\ frames'[t] = frames[t]
  /\ i'[t] = i[t]
  /\ numTx'[t] = numTx[t]
  /\ verdict'[t] = verdict[t]
  /\ Walking(t)

\* A thread walking a batch after a step walked that batch before, or has just
\* received it, or has just decided a frame of it.
LEMMA WalkingSteps ==
  ASSUME TypeOK, Shape, [Next]_vars, NEW t \in Worker, Walking(t)'
  PROVE  Untouched(t) \/ Poll(t) \/ (Keep(t) /\ Walking(t)) \/ (Discard(t) /\ Walking(t))
<1> USE TaskFacts
<1>t. /\ t \in Thread /\ pc \in [Thread -> Label] /\ frames \in [Thread -> Seq(Frame)]
      /\ i \in [Thread -> Nat] /\ numTx \in [Thread -> Nat]
      /\ verdict \in [Thread -> [Frame -> {"none", "tx", "drop"}]]
  BY DEF TypeOK
<1>1. ASSUME NEW u \in Worker, KernelRx(u) \/ KernelTx(u) PROVE Untouched(t)
  BY <1>1 DEF KernelRx, KernelTx, Untouched, Walking, batches
<1>2. ASSUME NEW u \in Worker, Panic(u) PROVE Untouched(t)
  BY <1>t, <1>2 DEF Panic, ForgetBatch, Empty, Goto, Untouched, Walking
<1>3. ASSUME NEW u \in Thread, Poll(u) PROVE Untouched(t) \/ Poll(t)
  BY <1>t, <1>3 DEF Poll, Goto, Untouched, Walking
<1>4. ASSUME NEW u \in Thread, Keep(u) PROVE Untouched(t) \/ (Keep(t) /\ Walking(t))
  BY <1>t, <1>4 DEF Keep, Untouched, Walking
<1>5. ASSUME NEW u \in Thread, Discard(u) PROVE Untouched(t) \/ (Discard(t) /\ Walking(t))
  BY <1>t, <1>5 DEF Discard, Untouched, Walking
<1>6. ASSUME NEW u \in Thread, Send(u) PROVE Untouched(t)
  BY <1>t, <1>6 DEF Send, Goto, Untouched, Walking, batches
<1>7. ASSUME NEW u \in Thread, Push(u) PROVE Untouched(t)
  BY <1>t, <1>7 DEF Push, ForgetBatch, Empty, Goto, Untouched, Walking
<1>8. ASSUME NEW u \in Thread, Complete(u) PROVE Untouched(t)
  BY <1>t, <1>8 DEF Complete, Goto, Untouched, Walking
<1>9. ASSUME NEW u \in Thread, Refill(u) PROVE Untouched(t)
  BY <1>t, <1>9 DEF Refill, ForgetBatch, Empty, Goto, Untouched, Walking
<1>10. ASSUME NEW u \in Thread, Stop(u) PROVE Untouched(t)
  BY <1>t, <1>10 DEF Stop, Goto, Untouched, Walking, batches
<1>11. ASSUME NEW s \in Sender, SkipRing(s) \/ DrainRing(s) \/ AdvanceRing(s)
       PROVE  Untouched(t)
  BY <1>t, <1>11 DEF SkipRing, DrainRing, AdvanceRing, Goto, Untouched, Walking, batches
<1>12. ASSUME EndDrain PROVE Untouched(t)
  <2>1. Mediator = First => pc'[Mediator] = "top"
    BY <1>t, <1>12 DEF EndDrain, Goto
  <2>2. Mediator # First => t # Mediator
    BY UmemAssumption DEF Mediator
  <2> QED
    BY <1>t, <1>12, <2>1, <2>2 DEF EndDrain, Goto, Untouched, Walking, batches
<1>13. ASSUME ExtraLoop PROVE Untouched(t)
  BY <1>t, <1>13 DEF ExtraLoop, Goto, Untouched, Walking, batches
<1>14. ASSUME Kill PROVE Untouched(t)
  BY <1>14 DEF Kill, Untouched, Walking, batches
<1>15. ASSUME UNCHANGED vars PROVE Untouched(t)
  BY <1>15 DEF vars, Untouched, Walking, batches
<1>16. ASSUME NEW u \in Thread, Sleep(u) PROVE Untouched(t)
  BY <1>t, <1>16 DEF Sleep, Goto, Untouched, Walking, batches
<1> QED
  BY <1>1, <1>2, <1>3, <1>4, <1>5, <1>6, <1>7, <1>8, <1>9, <1>10, <1>11, <1>12, <1>13,
     <1>14, <1>15, <1>16 DEF Next, Batch, Credit, Drain

\* The verdicts of a batch stay in step with its blocks.
LEMMA NextWalked ==
  TypeOK /\ Shape /\ Exclusive /\ Walked /\ [Next]_vars => Walked'
<1> SUFFICES ASSUME TypeOK, Shape, Exclusive, Walked, [Next]_vars,
                    NEW t \in Worker, Walking(t)'
             PROVE  \A k \in 1..Len(frames'[t]) : verdict'[t][frames'[t][k]] = Said(t, k)'
  BY DEF Walked
<1>1. CASE Untouched(t)
  BY <1>1 DEF Untouched, Walked, Said
<1>2. CASE Poll(t)
  BY <1>2, PollWalked
<1>3. CASE Keep(t) /\ Walking(t)
  BY <1>3, KeepWalked DEF Walked
<1>4. CASE Discard(t) /\ Walking(t)
  BY <1>4, DiscardWalked DEF Walked
<1> QED
  BY <1>1, <1>2, <1>3, <1>4, WalkingSteps

\* The three blocks of a batch, from their bounds and from the verdicts.
LEMMA WalkedPartition == TypeOK /\ Shape /\ Walked => BatchPartition
<1> SUFFICES ASSUME TypeOK, Shape, Walked PROVE BatchPartition
  OBVIOUS
<1>1. ASSUME NEW t \in Worker, pc[t] \in {"core", "return"}
      PROVE  /\ i[t] <= numTx[t]
             /\ numTx[t] <= Len(frames[t])
             /\ pc[t] = "return" => i[t] = numTx[t]
  BY <1>1, TaskFacts DEF Shape, Busy
<1> QED
  BY <1>1 DEF BatchPartition, Walked, Walking, Said

\* The swap loop of dataplane_core is right for batches of every size: each
\* frame is walked once, exactly those whose walk said Tx are transmitted and
\* exactly the others are handed back.
THEOREM BatchesPartitioned == Spec => []BatchPartition
<1>1. Spec => [](TypeOK /\ Shape)
  BY InitShape, NextShape, PTL DEF Spec
<1>2. Spec => []Exclusive
  BY DescriptorsExclusive
<1>3. Init => Walked
  <2> SUFFICES ASSUME Init, NEW t \in Worker PROVE ~Walking(t)
    BY DEF Walked
  <2> QED
    BY TaskFacts DEF Init, Walking
<1>4. Spec => []Walked
  BY <1>1, <1>2, <1>3, NextWalked, PTL DEF Spec
<1> QED
  BY <1>1, <1>4, WalkedPartition, PTL
=============================================================================
