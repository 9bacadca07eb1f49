---------------------------- MODULE StartupProofs ----------------------------
(***************************************************************************)
(* Theorems about Startup, for every machine and every command line.  The  *)
(* inductive invariant says exactly what main holds at each of its steps:  *)
(* the rings not yet handed out are numbered from 1, and thread t that     *)
(* sends was given ring xdp_ct - t.                                        *)
(***************************************************************************)
EXTENDS Startup, FiniteSetTheorems, TLAPS

OptsOK ==
  opts \in [cpus : Parallelism, xdp_cores : CoresOption, share_umem : BOOLEAN,
            umem_mode : {"first-thread", "extra-thread"}]

\* Several threads are only reached with a shared UMEM.
CountOK == xdp_ct \in 1..8 /\ (xdp_ct > 1 => opts.share_umem)

Fresh == t_id = 0 /\ role = <<>>

Stack(n) == [r \in 1..n |-> r]

\* What thread t, which has a ring to send into, was given.
Sending(t) == Given("other", xdp_ct - t, {}, FALSE)

\* What the thread that owns the UMEM's queues was given.
Disposing == Given("disposal", 0, 1..xdp_ct, TRUE)
Mediating == IF xdp_ct = 1 THEN Given("solo", 0, {}, TRUE)
             ELSE Given("self", 0, 1..(xdp_ct - 1), TRUE)

\* Threads below t_id run, the disposal thread too.
SpawnedExtra ==
  /\ senders = Stack(xdp_ct - t_id)
  /\ DOMAIN role = (-1)..(t_id - 1)
  /\ role[-1] = Disposing
  /\ \A t \in 0..(t_id - 1) : role[t] = Sending(t)

\* Thread 0 is the first to be spawned, and keeps the receivers.
SpawnedFirst ==
  /\ mediate = {0}
  /\ DOMAIN role = 0..(t_id - 1)
  /\ IF t_id = 0 THEN senders = Stack(xdp_ct - 1) /\ receivers = Some(1..(xdp_ct - 1))
     ELSE senders = Stack(xdp_ct - t_id) /\ role[0] = Mediating
  /\ \A t \in 1..(t_id - 1) : role[t] = Sending(t)

Spawned == IF ExtraThread THEN SpawnedExtra ELSE SpawnedFirst

StartupInv ==
  /\ OptsOK
  /\ step \in {"derive", "sockets", "rings", "extra", "spawn", "running", "error"}
  /\ xdp_ct \in 0..8
  /\ mediate \subseteq {0}
  /\ t_id \in 0..xdp_ct
  /\ step \in {"derive", "sockets", "rings", "extra", "error"} => Fresh
  /\ step \notin {"derive", "error"} => CountOK
  /\ step \in {"rings", "extra"} => mediate = {0}
  /\ step = "extra" =>
       ExtraThread /\ senders = Stack(xdp_ct) /\ receivers = Some(1..xdp_ct)
  /\ step \in {"spawn", "running"} => Spawned
  /\ step = "running" => t_id = xdp_ct

\* main starts with nothing handed out.
LEMMA InitStartup == Init => StartupInv
BY DEF Init, StartupInv, OptsOK, Fresh

\* The number of threads is what .max(1).min(8) makes of any option.
LEMMA ClampedRange == OptsOK => Clamped \in 1..8
<1> SUFFICES ASSUME OptsOK PROVE Clamped \in 1..8
  OBVIOUS
<1>1. opts.cpus \in Nat /\ (opts.xdp_cores \in Nat \/ opts.xdp_cores = Unset)
  BY StartupAssumption DEF OptsOK
<1>2. Estimate \in Nat
  BY <1>1 DEF Estimate
<1>3. Asked \in Nat
  BY <1>1, <1>2 DEF Asked
<1>4. QED
  BY <1>3 DEF Clamped

\* HashMap-like growth of the list of threads.
LEMMA RoleGrows ==
  ASSUME NEW t, NEW r, SetRole(t, r)
  PROVE  /\ DOMAIN role' = DOMAIN role \union {t}
         /\ role'[t] = r
         /\ \A x \in DOMAIN role \ {t} : role'[x] = role[x]
BY DEF SetRole

\* Popping the last ring leaves the ones before it.
LEMMA Pop ==
  ASSUME NEW n \in Nat \ {0}
  PROVE  /\ Stack(n) # <<>>
         /\ Len(Stack(n)) = n
         /\ Stack(n)[n] = n
         /\ SubSeq(Stack(n), 1, n - 1) = Stack(n - 1)
BY DEF Stack

\* Nothing is left to pop once every ring has been given away.
LEMMA Popped == Stack(0) = <<>>
BY DEF Stack

\* One thread more, in either mode.
LEMMA SpawnStep == StartupInv /\ Spawn => StartupInv'
<1> SUFFICES ASSUME StartupInv, Spawn PROVE StartupInv'
  OBVIOUS
<1>1. /\ CountOK /\ Spawned /\ t_id < xdp_ct /\ t_id \in 0..7 /\ xdp_ct \in 1..8
      /\ t_id' = t_id + 1 /\ SetRole(t_id, Role(t_id)) /\ step = "spawn" /\ step' = "spawn"
      /\ opts' = opts /\ xdp_ct' = xdp_ct /\ mediate' = mediate /\ mediate \subseteq {0}
      /\ senders' = IF GetsSender(t_id) THEN SubSeq(senders, 1, Len(senders) - 1) ELSE senders
  BY DEF Spawn, StartupInv, CountOK
<1>2. /\ DOMAIN role' = DOMAIN role \union {t_id}
      /\ role'[t_id] = Role(t_id)
      /\ \A x \in DOMAIN role \ {t_id} : role'[x] = role[x]
  BY <1>1, RoleGrows
<1>3. CASE ExtraThread
  <2>1. SpawnedExtra
    BY <1>1, <1>3 DEF Spawned
  <2> DEFINE n == xdp_ct - t_id
  <2>2. n \in Nat \ {0} /\ senders = Stack(n)
    BY <1>1, <2>1 DEF SpawnedExtra
  <2>3. GetsSender(t_id) /\ Role(t_id) = Sending(t_id)
    BY <1>3, <2>2, Pop DEF GetsSender, Role, Sending
  <2>4. senders' = Stack(n - 1)
    BY <1>1, <2>2, <2>3, Pop
  <2>5. SpawnedExtra'
    <3>1. DOMAIN role' = (-1)..(t_id' - 1)
      BY <1>1, <1>2, <2>1 DEF SpawnedExtra
    <3>2. role'[-1] = Disposing'
      <4>1. -1 \in DOMAIN role \ {t_id}
        BY <1>1, <2>1 DEF SpawnedExtra
      <4>2. Disposing' = Disposing
        BY <1>1 DEF Disposing
      <4>3. QED
        BY <4>1, <4>2, <1>2, <2>1 DEF SpawnedExtra
    <3>3. \A t \in 0..(t_id' - 1) : role'[t] = Sending(t)'
      <4> SUFFICES ASSUME NEW t \in 0..(t_id' - 1) PROVE role'[t] = Sending(t)'
        OBVIOUS
      <4>1. Sending(t)' = Sending(t)
        BY <1>1 DEF Sending
      <4>2. t = t_id \/ t \in 0..(t_id - 1)
        BY <1>1
      <4>3. CASE t = t_id
        BY <4>1, <4>3, <1>2, <2>3
      <4>4. CASE t \in 0..(t_id - 1)
        <5>1. t \in DOMAIN role \ {t_id}
          BY <1>1, <2>1, <4>4 DEF SpawnedExtra
        <5>2. QED
          BY <4>1, <4>4, <5>1, <1>2, <2>1 DEF SpawnedExtra
      <4>5. QED
        BY <4>2, <4>3, <4>4
    <3>4. QED
      BY <1>1, <2>4, <3>1, <3>2, <3>3 DEF SpawnedExtra
  <2>6. QED
    BY <1>1, <1>3, <2>5 DEF StartupInv, OptsOK, CountOK, Spawned, ExtraThread
<1>4. CASE ~ExtraThread
  <2>1. SpawnedFirst
    BY <1>1, <1>4 DEF Spawned
  <2>2. CASE t_id = 0
    <3>1. ~GetsSender(t_id)
      BY <1>4, <2>2 DEF GetsSender
    <3>2. Role(t_id) = Mediating
      <4>1. t_id \in mediate /\ ~receivers.taken /\ receivers.rings = 1..(xdp_ct - 1)
        BY <2>1, <2>2 DEF SpawnedFirst, Some
      <4>2. QED
        BY <3>1, <4>1 DEF Role, Mediating
    <3>3. SpawnedFirst'
      <4>1. Mediating' = Mediating
        BY <1>1 DEF Mediating
      <4>2. senders' = Stack(xdp_ct' - t_id') /\ mediate' = {0} /\ t_id' = 1
        BY <1>1, <2>1, <2>2, <3>1 DEF SpawnedFirst
      <4>3. DOMAIN role' = 0..(t_id' - 1) /\ role'[0] = Mediating'
        BY <1>1, <1>2, <2>1, <2>2, <3>2, <4>1 DEF SpawnedFirst
      <4>4. QED
        BY <4>2, <4>3 DEF SpawnedFirst
    <3>4. QED
      BY <1>1, <1>4, <3>3 DEF StartupInv, OptsOK, CountOK, Spawned, ExtraThread
  <2>3. CASE t_id # 0
    <3> DEFINE n == xdp_ct - t_id
    <3>1. n \in Nat \ {0} /\ senders = Stack(n)
      BY <1>1, <2>1, <2>3 DEF SpawnedFirst
    <3>2. GetsSender(t_id) /\ Role(t_id) = Sending(t_id)
      BY <2>3, <3>1, Pop DEF GetsSender, Role, Sending
    <3>3. senders' = Stack(n - 1)
      BY <1>1, <3>1, <3>2, Pop
    <3>4. DOMAIN role' = 0..(t_id' - 1)
      BY <1>1, <1>2, <2>1 DEF SpawnedFirst
    <3>5. role'[0] = Mediating'
      <4>1. 0 \in DOMAIN role \ {t_id}
        BY <1>1, <2>1, <2>3 DEF SpawnedFirst
      <4>2. Mediating' = Mediating
        BY <1>1 DEF Mediating
      <4>3. QED
        BY <4>1, <4>2, <1>2, <2>1, <2>3 DEF SpawnedFirst
    <3>6. \A t \in 1..(t_id' - 1) : role'[t] = Sending(t)'
      <4> SUFFICES ASSUME NEW t \in 1..(t_id' - 1) PROVE role'[t] = Sending(t)'
        OBVIOUS
      <4>1. Sending(t)' = Sending(t)
        BY <1>1 DEF Sending
      <4>2. t = t_id \/ t \in 1..(t_id - 1)
        BY <1>1
      <4>3. CASE t = t_id
        BY <4>1, <4>3, <1>2, <3>2
      <4>4. CASE t \in 1..(t_id - 1)
        <5>1. t \in DOMAIN role \ {t_id}
          BY <1>1, <2>1, <4>4 DEF SpawnedFirst
        <5>2. QED
          BY <4>1, <4>4, <5>1, <1>2, <2>1 DEF SpawnedFirst
      <4>5. QED
        BY <4>2, <4>3, <4>4
    <3>7. SpawnedFirst'
      <4>1. mediate' = {0}
        BY <1>1, <2>1 DEF SpawnedFirst
      <4>2. n - 1 = xdp_ct' - t_id' /\ t_id' # 0
        BY <1>1
      <4>3. QED
        BY <4>1, <4>2, <3>3, <3>4, <3>5, <3>6 DEF SpawnedFirst
    <3>8. QED
      BY <1>1, <1>4, <3>7 DEF StartupInv, OptsOK, CountOK, Spawned, ExtraThread
  <2>4. QED
    BY <2>2, <2>3
<1>5. QED
  BY <1>3, <1>4

\* What is in the three kinds of roles.
LEMMA RoleFacts ==
  /\ \A t : Sending(t).kind = "other" /\ Sending(t).sends = xdp_ct - t /\ ~Sending(t).mediates
  /\ Disposing.kind = "disposal" /\ Disposing.receives = 1..xdp_ct /\ Disposing.mediates
  /\ Mediating.kind \in {"solo", "self"} /\ Mediating.mediates
  /\ xdp_ct \in Nat \ {0} => Mediating.receives = 1..(xdp_ct - 1)
<1>1. \A t : Sending(t).kind = "other" /\ Sending(t).sends = xdp_ct - t /\ ~Sending(t).mediates
  BY DEF Sending, Given
<1>2. Disposing.kind = "disposal" /\ Disposing.receives = 1..xdp_ct /\ Disposing.mediates
  BY DEF Disposing, Given
<1>3. Mediating.kind \in {"solo", "self"} /\ Mediating.mediates
  BY DEF Mediating, Given
<1>4. xdp_ct \in Nat \ {0} => Mediating.receives = 1..(xdp_ct - 1)
  BY DEF Mediating, Given
<1>5. QED
  BY <1>1, <1>2, <1>3, <1>4

\* Every step of main keeps what it holds accounted for.
LEMMA NextStartup == StartupInv /\ [Next]_vars => StartupInv'
<1> SUFFICES ASSUME StartupInv, [Next]_vars PROVE StartupInv'
  OBVIOUS
<1>1. CASE Derive
  <2>1. Clamped \in 1..8
    BY ClampedRange DEF StartupInv
  <2>2. QED
    BY <1>1, <2>1 DEF StartupInv, Derive, OptsOK, CountOK, Fresh
<1>2. CASE Sockets
  BY <1>2 DEF StartupInv, Sockets, OptsOK, CountOK, Fresh
<1>3. CASE Rings
  BY <1>3 DEF StartupInv, Rings, OptsOK, CountOK, Fresh, NeededRings, Stack,
              ExtraThread, Spawned, SpawnedFirst
<1>4. CASE SpawnExtra
  <2>1. SetRole(-1, Disposing)
    <3>1. 0 \in mediate /\ ~receivers.taken /\ receivers.rings = 1..xdp_ct
      BY <1>4 DEF SpawnExtra, StartupInv, Some
    <3>2. QED
      BY <1>4, <3>1 DEF SpawnExtra, Disposing
  <2>2. SpawnedExtra'
    <3>1. /\ xdp_ct' = xdp_ct /\ t_id' = 0 /\ t_id = 0 /\ xdp_ct \in 1..8
          /\ senders' = Stack(xdp_ct) /\ role = <<>>
      BY <1>4 DEF SpawnExtra, StartupInv, Fresh, CountOK
    <3>2. DOMAIN role' = DOMAIN role \union {-1} /\ role'[-1] = Disposing
      BY <2>1, RoleGrows
    <3>3. DOMAIN role' = {-1} /\ Disposing' = Disposing
      BY <3>1, <3>2 DEF Disposing
    <3>4. QED
      BY <3>1, <3>2, <3>3 DEF SpawnedExtra
  <2>3. QED
    BY <1>4, <2>2 DEF SpawnExtra, StartupInv, OptsOK, CountOK, Spawned, ExtraThread
<1>5. CASE Spawn
  BY <1>5, SpawnStep
<1>6. CASE AllSpawned
  BY <1>6 DEF AllSpawned, StartupInv, OptsOK, CountOK, Spawned, SpawnedExtra, SpawnedFirst,
              ExtraThread, Disposing, Mediating, Sending
<1>7. CASE UNCHANGED vars
  BY <1>7 DEF vars, StartupInv, OptsOK, CountOK, Fresh, Spawned, SpawnedExtra, SpawnedFirst,
              ExtraThread, Disposing, Mediating, Sending
<1>8. QED
  BY <1>1, <1>2, <1>3, <1>4, <1>5, <1>6, <1>7 DEF Next

\* The invariant holds throughout start-up.
LEMMA StartupInvariant == Spec => []StartupInv
BY InitStartup, NextStartup, PTL DEF Spec

\* The types of what main keeps while it starts up.
THEOREM StartupTypes == Spec => []StartupTypeOK
<1>1. StartupInv => StartupTypeOK
  <2> SUFFICES ASSUME StartupInv PROVE StartupTypeOK
    OBVIOUS
  <2>1. CASE step \in {"derive", "sockets", "rings", "extra", "error"}
    BY <2>1 DEF StartupInv, StartupTypeOK, Fresh
  <2>2. CASE step \in {"spawn", "running"}
    <3>1. CASE ExtraThread
      <4>1. SpawnedExtra
        BY <2>2, <3>1 DEF StartupInv, Spawned
      <4>2. \A t \in DOMAIN role : t = -1 \/ t \in 0..(t_id - 1)
        BY <4>1 DEF SpawnedExtra, StartupInv
      <4>3. \A t \in DOMAIN role : role[t].kind \in {"disposal", "other"}
        BY <4>1, <4>2, RoleFacts DEF SpawnedExtra
      <4>4. DOMAIN role \subseteq -1..7
        BY <4>1 DEF SpawnedExtra, StartupInv
      <4>5. QED
        BY <4>3, <4>4 DEF StartupInv, StartupTypeOK
    <3>2. CASE ~ExtraThread
      <4>1. SpawnedFirst
        BY <2>2, <3>2 DEF StartupInv, Spawned
      <4>2. \A t \in DOMAIN role : t_id # 0 /\ (t = 0 \/ t \in 1..(t_id - 1))
        BY <4>1 DEF SpawnedFirst, StartupInv
      <4>3. \A t \in DOMAIN role : role[t].kind \in {"solo", "self", "other"}
        BY <4>1, <4>2, RoleFacts DEF SpawnedFirst
      <4>4. DOMAIN role \subseteq -1..7
        BY <4>1 DEF SpawnedFirst, StartupInv
      <4>5. QED
        BY <4>3, <4>4 DEF StartupInv, StartupTypeOK
    <3>3. QED
      BY <3>1, <3>2
  <2>3. QED
    BY <2>1, <2>2 DEF StartupInv
<1>2. QED
  BY <1>1, StartupInvariant, PTL

\* No thread finds that something it needs was given to another one, on any
\* machine and for any command line: none of main's "FATAL" expectations and
\* unwraps fails.
THEOREM NeverFatal == Spec => []NoFatal
<1>1. StartupInv => NoFatal
  <2> SUFFICES ASSUME StartupInv, NEW t \in DOMAIN role PROVE role[t].kind # "fatal"
    BY DEF NoFatal
  <2>1. step \in {"spawn", "running"}
    BY DEF StartupInv, Fresh
  <2>2. CASE ExtraThread
    <3>1. SpawnedExtra
      BY <2>1, <2>2 DEF StartupInv, Spawned
    <3>2. t = -1 \/ t \in 0..(t_id - 1)
      BY <3>1 DEF SpawnedExtra, StartupInv
    <3>3. QED
      BY <3>1, <3>2, RoleFacts DEF SpawnedExtra
  <2>3. CASE ~ExtraThread
    <3>1. SpawnedFirst
      BY <2>1, <2>3 DEF StartupInv, Spawned
    <3>2. t_id # 0 /\ (t = 0 \/ t \in 1..(t_id - 1))
      BY <3>1 DEF SpawnedFirst, StartupInv
    <3>3. QED
      BY <3>1, <3>2, RoleFacts DEF SpawnedFirst
  <2>4. QED
    BY <2>2, <2>3
<1>2. QED
  BY <1>1, StartupInvariant, PTL

\* Once every thread runs there is one mediator, every other thread sends into
\* a ring of its own, and the mediator receives from exactly those rings.
THEOREM RolesAlwaysMatch == Spec => []RolesMatch
<1>1. StartupInv => RolesMatch
  <2> SUFFICES ASSUME StartupInv, step = "running" PROVE RolesMatch
    BY DEF RolesMatch
  <2> DEFINE Mediators == {t \in DOMAIN role : role[t].mediates}
             Others    == DOMAIN role \ Mediators
             m         == IF ExtraThread THEN -1 ELSE 0
  <2>1. xdp_ct \in 1..8 /\ t_id = xdp_ct
    BY DEF StartupInv, CountOK
  <2>2. /\ DOMAIN role \ {-1} = 0..(xdp_ct - 1)
        /\ Mediators = {m}
        /\ \A t \in Others : t \in 0..(xdp_ct - 1) /\ role[t].sends = xdp_ct - t
        /\ role[m].receives = {xdp_ct - t : t \in Others}
    <3>1. CASE ExtraThread
      <4>1. SpawnedExtra /\ m = -1
        BY <3>1 DEF StartupInv, Spawned
      <4>2. DOMAIN role = (-1)..(xdp_ct - 1) /\ role[-1] = Disposing
        BY <2>1, <4>1 DEF SpawnedExtra
      <4>3. role[-1].mediates /\ role[-1].receives = 1..xdp_ct
        BY <4>2, RoleFacts
      <4>4. \A t \in 0..(xdp_ct - 1) : ~role[t].mediates /\ role[t].sends = xdp_ct - t
        BY <2>1, <4>1, RoleFacts DEF SpawnedExtra
      <4>5. Mediators = {-1}
        BY <2>1, <4>2, <4>3, <4>4
      <4>6. Others = 0..(xdp_ct - 1)
        BY <2>1, <4>2, <4>5
      <4>7. {xdp_ct - t : t \in 0..(xdp_ct - 1)} = 1..xdp_ct
        <5>1. \A r \in 1..xdp_ct : xdp_ct - r \in 0..(xdp_ct - 1) /\ r = xdp_ct - (xdp_ct - r)
          BY <2>1
        <5>2. QED
          BY <2>1, <5>1
      <4>8. DOMAIN role \ {-1} = 0..(xdp_ct - 1)
        BY <2>1, <4>2
      <4> HIDE DEF Mediators, Others
      <4>9. QED
        BY <4>1, <4>3, <4>4, <4>5, <4>6, <4>7, <4>8
    <3>2. CASE ~ExtraThread
      <4>1. SpawnedFirst /\ m = 0
        BY <3>2 DEF StartupInv, Spawned
      <4>2. DOMAIN role = 0..(xdp_ct - 1) /\ role[0] = Mediating
        BY <2>1, <4>1 DEF SpawnedFirst
      <4>3. role[0].mediates /\ role[0].receives = 1..(xdp_ct - 1)
        BY <2>1, <4>2, RoleFacts
      <4>4. \A t \in 1..(xdp_ct - 1) : ~role[t].mediates /\ role[t].sends = xdp_ct - t
        BY <2>1, <4>1, RoleFacts DEF SpawnedFirst
      <4>5. Mediators = {0}
        BY <2>1, <4>2, <4>3, <4>4
      <4>6. Others = 1..(xdp_ct - 1)
        BY <2>1, <4>2, <4>5
      <4>7. {xdp_ct - t : t \in 1..(xdp_ct - 1)} = 1..(xdp_ct - 1)
        <5>1. \A r \in 1..(xdp_ct - 1) : xdp_ct - r \in 1..(xdp_ct - 1) /\ r = xdp_ct - (xdp_ct - r)
          BY <2>1
        <5>2. QED
          BY <2>1, <5>1
      <4>8. DOMAIN role \ {-1} = 0..(xdp_ct - 1) /\ 1..(xdp_ct - 1) \subseteq 0..(xdp_ct - 1)
        BY <2>1, <4>2
      <4> HIDE DEF Mediators, Others
      <4>9. QED
        BY <4>1, <4>3, <4>4, <4>5, <4>6, <4>7, <4>8
    <3>3. QED
      BY <3>1, <3>2
  <2> HIDE DEF Mediators, Others, m
  <2>3. Cardinality(Mediators) = 1
    BY <2>2, FS_Singleton
  <2>4. \A s, t \in Others : role[s].sends = role[t].sends => s = t
    BY <2>1, <2>2
  <2>5. {role[t].sends : t \in Others} = {xdp_ct - t : t \in Others}
    BY <2>2
  <2>6. \A x \in Mediators :
          /\ role[x].receives = {role[t].sends : t \in Others}
          /\ x = IF ExtraThread THEN -1 ELSE 0
    BY <2>2, <2>5 DEF m
  <2>7. QED
    BY <2>2, <2>3, <2>4, <2>6 DEF RolesMatch, Mediators, Others
<1>2. QED
  BY <1>1, StartupInvariant, PTL
=============================================================================
