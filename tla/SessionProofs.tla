---------------------------- MODULE SessionProofs ----------------------------
(***************************************************************************)
(* Theorems about Session, for any number of pulleys, guests, starts of    *)
(* chainsmith, scripts and architectures.                                  *)
(***************************************************************************)
EXTENDS Session, FiniteSetTheorems, TLAPS

(***************************************************************************)
(* The inductive invariant: what chainsmith has, what is true of every     *)
(* client, and what is true of a pulley.                                   *)
(***************************************************************************)
Shapes ==
  /\ opts \in [Pulley -> Opts]
  /\ script \in [Guest -> Scripts]
  /\ pc \in [Peer -> {"read", "dial", "quiet", "tls", "upgrade", "ask", "wait", "done"}]
  /\ crps = [c \in Pulley |-> crps[c]]
  /\ at = [c \in Peer |-> at[c]]
  /\ DOMAIN result = Pulley
  /\ task \in [Peer -> {"none", "backlog", "tls", "ws", "loop", "ended"}]
  /\ DOMAIN toServer = Peer
  /\ DOMAIN toClient = Peer
  /\ DOMAIN spoken = Guest
  /\ DOMAIN said = Peer
  /\ down \subseteq Peer
  /\ trouble \in [Pulley -> SUBSET Causes]

\* A store that is complete was made by a start of chainsmith, and one that
\* serves has its own store in the file.
ServerInv ==
  /\ started \in Seq(Modes)
  /\ Epoch <= MaxStarts
  /\ srv \in {"off", "store", "write", "serve"}
  /\ srv # "off" => Epoch >= 1
  /\ file \in {NoFile, PartFile} \union {StoreFile(NewRandom(e)) : e \in 1..Epoch}
  /\ srv = "serve" /\ GenerateCrps(Mode) => file = StoreFile(OwnStore) /\ ~GenCertPanics(OwnStore)

\* How much of its script a client has sent, and a task has handled.
Sent(c) == IF c \in Guest THEN spoken[c] ELSE IF pc[c] = "wait" THEN 1 ELSE 0
Handled(c) == Sent(c) - Len(toServer[c])

\* A task belongs to the start of chainsmith that is running, and nothing is
\* said before its handshakes are over.
Life(c) ==
  /\ at[c] \in 0..Epoch
  /\ task[c] = "none" => c \notin down /\ said[c] = <<>> /\ Sent(c) = 0
  /\ task[c] # "none" => at[c] # 0
  /\ pc[c] \in {"read", "dial"} => task[c] = "none" /\ at[c] = 0
  /\ pc[c] \in {"quiet", "tls", "upgrade", "ask", "wait"} => task[c] # "none"
  /\ task[c] \in {"backlog", "tls", "ws", "loop"} => at[c] = Epoch /\ srv # "off"
  /\ task[c] \in {"tls", "ws", "loop"} => srv = "serve"
  /\ task[c] \in {"none", "backlog", "tls", "ws"} =>
       toClient[c] = <<>> /\ toServer[c] = <<>> /\ pc[c] \notin {"ask", "wait"}

Before(c, n) == {l \in Requests(Script(c)) : l <= n}
Words(c) == {Script(c)[i] : i \in 1..Len(Script(c))}
Answers(c) == {Answer(Script(c)[i].target, at[c]) : i \in Requests(Script(c))}

\* While a connection is up, what is under way is the rest of what was sent,
\* and every request handled has been answered.
Talk(c) ==
  /\ toServer[c] \in Seq(Words(c))
  /\ said[c] \in Seq(Answers(c))
  /\ c \notin down =>
       /\ Sent(c) \in 0..Len(Script(c))
       /\ Len(toServer[c]) <= Sent(c)
       /\ \A i \in 1..Len(toServer[c]) : toServer[c][i] = Script(c)[Handled(c) + i]
       /\ \A l \in 1..Handled(c) : Deser(Script(c)[l]) # "error"
       /\ Len(said[c]) = Cardinality(Before(c, Handled(c)))

InOrder(c) ==
  \A j \in 1..Len(said[c]) :
    \E i \in Requests(Script(c)) :
      Cardinality(Before(c, i)) = j /\ said[c][j] = Answer(Script(c)[i].target, at[c])

\* A pulley is past the handshake of TLS with the store of chainsmith only.
Trust(c) ==
  LET mode == started[at[c]]
  IN  /\ crps[c].used = {}
      /\ crps[c] \in Stores
      /\ pc[c] # "quiet"
      /\ pc[c] \notin {"read", "done"} => crps[c].origin # 0
      /\ pc[c] = "tls" => opts[c].scheme = "wss"
      /\ task[c] = "tls" => IsTlsUsed(mode)
      /\ task[c] = "ws" /\ pc[c] = "tls" => ~IsTlsUsed(mode)
      /\ opts[c].scheme = "ws" /\ (task[c] \in {"ws", "loop"} \/ toClient[c] # <<>>) => ~IsTlsUsed(mode)
      /\ opts[c].scheme = "wss" /\ pc[c] \in {"upgrade", "ask", "wait"} =>
           IsTlsUsed(mode) /\ (GenerateCrps(mode) => crps[c] = NewRandom(at[c]))

Replies(c) ==
  {Message("Upgraded"), Message("Ping"), Message("Close"), Answer(opts[c].target, at[c])}

\* What is under way to a pulley.
Mail(c) ==
  /\ toClient[c] \in Seq(Replies(c))
  /\ \A i \in 1..Len(toClient[c]) :
       /\ toClient[c][i] = Message("Upgraded") => i = 1 /\ pc[c] \in {"upgrade", "done"}
       /\ toClient[c][i] = Message("Close") => "closed" \in trouble[c]

\* The two sides do not agree on whether to use TLS.
WrongScheme(c) == (opts[c].scheme = "wss") # IsTlsUsed(started[at[c]])

\* A pulley that did not read its store too early has the one of the chainsmith it
\* meets, and one that finds its connection down has lost it, or a handshake failed.
Healthy(c) ==
  /\ pc[c] = "dial" /\ "early" \notin trouble[c] =>
       srv = "serve" /\ (GenerateCrps(Mode) => crps[c] = OwnStore)
  /\ task[c] # "none" /\ "early" \notin trouble[c] =>
       (GenerateCrps(started[at[c]]) => crps[c] = NewRandom(at[c]))
  /\ pc[c] # "done" /\ c \in down =>
       "lost" \in trouble[c] \/ (WrongScheme(c) /\ pc[c] \in {"tls", "upgrade"})

\* The cause of each error.
Excuse(c, kind) ==
  /\ kind = "panic" => "half" \in trouble[c]
  /\ kind = "Connect" =>
       at[c] = 0 \/ WrongUrl(c) \/ WrongStore(c) \/ "lost" \in trouble[c]
  /\ kind \in {"SendRequest", "WsRecv"} => "lost" \in trouble[c]
  /\ kind = "Deserialize" => "closed" \in trouble[c]
  /\ kind = "ServerError" => opts[c].target \notin Arch

Outcome(c) ==
  /\ pc[c] # "done" <=> result[c] = Pending
  /\ \/ result[c] = Pending
     \/ \E kind \in Errors : result[c] = Err(kind) /\ Excuse(c, kind)
     \/ /\ result[c] = Ok(opts[c].target, at[c])
        /\ opts[c].target \in Arch
        /\ at[c] # 0
        /\ GenerateCrps(started[at[c]]) => crps[c] = NewRandom(at[c])

PeerInv(c) == Life(c) /\ Talk(c) /\ InOrder(c)
PulleyInv(c) == Trust(c) /\ Mail(c) /\ Healthy(c) /\ Outcome(c)

SessionInv ==
  /\ Shapes
  /\ ServerInv
  /\ \A c \in Peer : PeerInv(c)
  /\ \A c \in Pulley : PulleyInv(c)
-----------------------------------------------------------------------------
(***************************************************************************)
(* What a step leaves alone.  How the programs were run never changes.     *)
(***************************************************************************)
Still == UNCHANGED <<opts, script>>

ModeKept(c) == at'[c] = at[c] /\ (at[c] # 0 => started'[at[c]] = started[at[c]])

\* A script is a sequence, and what is not an error is a request or a ping.
LEMMA ScriptFacts ==
  ASSUME Shapes, NEW c \in Peer
  PROVE  /\ Len(Script(c)) \in Nat
         /\ \A i \in 1..Len(Script(c)) : Deser(Script(c)[i]) = "some" <=> Script(c)[i].kind = "RequestChain"
<1>1. CASE c \in Pulley
  <2>1. Script(c) = <<Request(opts[c].target)>>
    BY <1>1 DEF Script
  <2>2. Len(Script(c)) = 1 /\ Script(c)[1] = Request(opts[c].target)
    BY <2>1
  <2>3. Request(opts[c].target).kind = "RequestChain"
    BY DEF Request
  <2>4. Deser(Request(opts[c].target)) = "some"
    BY <2>3 DEF Deser
  <2>5. QED
    BY <2>2, <2>3, <2>4
<1>2. CASE c \notin Pulley
  <2>1. Script(c) \in Seq(ClientMsg)
    BY <1>2, SessionAssumption DEF Script, Shapes, Peer
  <2>2. \A m \in ClientMsg : Deser(m) = "some" <=> m.kind = "RequestChain"
    BY DEF ClientMsg, Deser
  <2>3. \A S : \A s \in Seq(S) : Len(s) \in Nat /\ \A i \in 1..Len(s) : s[i] \in S
    OBVIOUS
  <2>4. QED
    BY <2>1, <2>2, <2>3
<1>3. QED
  BY <1>1, <1>2

\* Words, requests and answers depend on the script alone.
LEMMA ScriptKept ==
  ASSUME Still, NEW c, at'[c] = at[c]
  PROVE  /\ Script(c)' = Script(c)
         /\ Words(c)' = Words(c)
         /\ Answers(c)' = Answers(c)
         /\ Requests(Script(c))' = Requests(Script(c))
         /\ \A n : Before(c, n)' = Before(c, n)
<1>1. Script(c)' = Script(c)
  BY DEF Still, Script
<1>2. Requests(Script(c))' = Requests(Script(c))
  BY <1>1 DEF Requests
<1>3. QED
  BY <1>1, <1>2 DEF Words, Answers, Before

\* Whether the two sides fit together does not change once they have met.
LEMMA SchemeKept ==
  ASSUME Still, NEW c, ModeKept(c), at[c] # 0
  PROVE  /\ WrongScheme(c)' <=> WrongScheme(c)
         /\ WrongUrl(c)' <=> WrongUrl(c)
         /\ GenerateCrps(started[at[c]])' <=> GenerateCrps(started[at[c]])
BY DEF Still, ModeKept, WrongScheme, WrongUrl

\* An error that had a cause still has it.
LEMMA ExcuseKept ==
  ASSUME Still, NEW c, NEW kind, ModeKept(c), crps'[c] = crps[c], trouble[c] \subseteq trouble'[c],
         Excuse(c, kind)
  PROVE  Excuse(c, kind)'
<1>1. opts'[c] = opts[c] /\ at'[c] = at[c]
  BY DEF Still, ModeKept
<1>2. CASE at[c] = 0
  BY <1>1, <1>2 DEF Excuse
<1>3. CASE at[c] # 0
  <2>1. WrongStore(c) => WrongStore(c)'
    BY <1>1, <1>3, SchemeKept DEF WrongStore, NewRandom
  <2>2. QED
    BY <1>1, <1>3, <2>1, SchemeKept DEF Excuse
<1>4. QED
  BY <1>2, <1>3

\* A connection over which nothing was sent or handled.
LEMMA TalkKept ==
  ASSUME Still, NEW c, Talk(c), at'[c] = at[c],
         toServer'[c] = toServer[c], said'[c] = said[c],
         c \in down' \/ (c \notin down /\ Sent(c)' = Sent(c))
  PROVE  Talk(c)'
<1>1. Handled(c)' = Sent(c)' - Len(toServer[c]) /\ Handled(c) = Sent(c) - Len(toServer[c])
  BY DEF Handled
<1>2. toServer'[c] \in Seq(Words(c)') /\ said'[c] \in Seq(Answers(c)')
  BY ScriptKept DEF Talk
<1>3. CASE c \in down'
  BY <1>2, <1>3 DEF Talk
<1>4. CASE c \notin down /\ Sent(c)' = Sent(c)
  <2>1. Handled(c)' = Handled(c) /\ Script(c)' = Script(c) /\ Before(c, Handled(c))' = Before(c, Handled(c))
    BY <1>1, <1>4, ScriptKept
  <2>2. QED
    BY <1>2, <1>4, <2>1, ScriptKept DEF Talk
<1>5. QED
  BY <1>3, <1>4

\* What was said in order stays in order.
LEMMA InOrderKept ==
  ASSUME Still, NEW c, InOrder(c), at'[c] = at[c], said'[c] = said[c]
  PROVE  InOrder(c)'
BY ScriptKept DEF InOrder

\* A connection that goes no further rests on the same certificates.
LEMMA TrustKept ==
  ASSUME Still, NEW c, Life(c), Trust(c), ModeKept(c), crps'[c] = crps[c],
         pc'[c] \in {pc[c], "done"}, task'[c] \in {task[c], "ended"},
         toClient[c] = <<>> => toClient'[c] = <<>>,
         pc[c] \in {"read", "dial", "quiet", "tls", "upgrade", "ask", "wait", "done"},
         task[c] \in {"none", "backlog", "tls", "ws", "loop", "ended"}
  PROVE  Trust(c)'
<1>1. opts'[c] = opts[c] /\ Stores' = Stores
  BY DEF Still, Stores
<1>2. CASE at[c] # 0
  BY <1>1, <1>2 DEF Trust, ModeKept
<1>3. CASE at[c] = 0
  <2>1. task[c] = "none" /\ toClient[c] = <<>> /\ pc[c] \notin {"quiet", "tls", "upgrade", "ask", "wait"}
    BY <1>3 DEF Life
  <2>2. QED
    BY <1>1, <2>1 DEF Trust
<1>4. QED
  BY <1>2, <1>3

\* Answers on their way stay what they are.
LEMMA MailKept ==
  ASSUME Still, NEW c, Mail(c), at'[c] = at[c], toClient'[c] = toClient[c],
         pc'[c] \in {pc[c], "done"}, trouble[c] \subseteq trouble'[c]
  PROVE  Mail(c)'
<1>1. Replies(c)' = Replies(c)
  BY DEF Still, Replies
<1>2. QED
  BY <1>1 DEF Mail

\* A connection without trouble stays so, or the trouble is noted.
LEMMA HealthyKept ==
  ASSUME Still, NEW c, Life(c), Healthy(c), ModeKept(c), UNCHANGED server, crps'[c] = crps[c],
         pc'[c] \in {pc[c], "done"}, trouble[c] \subseteq trouble'[c],
         task'[c] # "none" => task[c] # "none",
         c \in down' => c \in down \/ "lost" \in trouble'[c] \/ pc'[c] = "done"
  PROVE  Healthy(c)'
<1>1. srv' = srv /\ file' = file /\ Mode' = Mode /\ OwnStore' = OwnStore
  BY DEF server, Mode, OwnStore, Epoch
<1>2. task[c] # "none" => at[c] # 0
  BY DEF Life
<1>3. c \in down => task[c] # "none"
  BY DEF Life
<1>4. at'[c] = at[c]
  BY DEF ModeKept
<1>5. pc'[c] = "dial" /\ "early" \notin trouble'[c] =>
        srv' = "serve" /\ (GenerateCrps(Mode') => crps'[c] = OwnStore')
  BY <1>1 DEF Healthy
<1>6. task'[c] # "none" /\ "early" \notin trouble'[c] =>
        (GenerateCrps(started[at[c]])' => crps'[c] = NewRandom(at'[c]))
  BY <1>2, <1>4, SchemeKept DEF Healthy
<1>7. pc'[c] # "done" /\ c \in down' =>
        "lost" \in trouble'[c] \/ (WrongScheme(c)' /\ pc'[c] \in {"tls", "upgrade"})
  BY <1>2, <1>3, SchemeKept DEF Healthy
<1>8. QED
  BY <1>5, <1>6, <1>7 DEF Healthy

\* The outcome of get_chain is final.
LEMMA OutcomeKept ==
  ASSUME Still, NEW c, Outcome(c), ModeKept(c), crps'[c] = crps[c],
         pc'[c] = pc[c], result'[c] = result[c], trouble[c] \subseteq trouble'[c]
  PROVE  Outcome(c)'
<1>1. opts'[c] = opts[c]
  BY DEF Still
<1>2. \A kind : Excuse(c, kind) => Excuse(c, kind)'
  BY ExcuseKept
<1>3. QED
  BY <1>1, <1>2 DEF Outcome, ModeKept

\* A client that a step does not concern.
Untouched(c) ==
  /\ pc'[c] = pc[c] /\ at'[c] = at[c] /\ task'[c] = task[c]
  /\ toServer'[c] = toServer[c] /\ toClient'[c] = toClient[c] /\ said'[c] = said[c]
  /\ c \in down' <=> c \in down
  /\ c \in Pulley => crps'[c] = crps[c] /\ result'[c] = result[c] /\ trouble'[c] = trouble[c]
  /\ c \in Guest => spoken'[c] = spoken[c]

\* Such a client keeps its part of the invariant.
LEMMA UntouchedKept ==
  ASSUME Shapes, Still, UNCHANGED server, NEW c \in Peer, Untouched(c), PeerInv(c),
         c \in Pulley => PulleyInv(c)
  PROVE  PeerInv(c)' /\ (c \in Pulley => PulleyInv(c)')
<1>1. started' = started /\ srv' = srv /\ ModeKept(c) /\ Epoch' = Epoch
  BY DEF server, ModeKept, Untouched, Epoch
<1>2. Sent(c)' = Sent(c)
  BY DEF Sent, Untouched
<1>3. Life(c)'
  BY <1>1, <1>2 DEF PeerInv, Life, Untouched
<1>4. Talk(c)'
  BY <1>2, TalkKept DEF PeerInv, Untouched, Talk
<1>5. InOrder(c)'
  BY InOrderKept DEF PeerInv, Untouched
<1>6. ASSUME c \in Pulley PROVE PulleyInv(c)'
  <2>1. /\ pc[c] \in {"read", "dial", "quiet", "tls", "upgrade", "ask", "wait", "done"}
        /\ task[c] \in {"none", "backlog", "tls", "ws", "loop", "ended"}
    BY DEF Shapes
  <2>2. Trust(c)'
    BY <1>1, <1>6, <2>1, TrustKept DEF PeerInv, PulleyInv, Untouched
  <2>3. Mail(c)'
    BY <1>6, MailKept DEF PulleyInv, Untouched
  <2>4. Healthy(c)'
    BY <1>1, <1>6, HealthyKept DEF PeerInv, PulleyInv, Untouched
  <2>5. Outcome(c)'
    BY <1>1, <1>6, OutcomeKept DEF PulleyInv, Untouched
  <2>6. QED
    BY <2>2, <2>3, <2>4, <2>5 DEF PulleyInv
<1>7. QED
  BY <1>3, <1>4, <1>5, <1>6 DEF PeerInv

\* A step of chainsmith or of the network that concerns c alone.
Concerns(c) ==
  /\ Still
  /\ UNCHANGED server
  /\ Shapes'
  /\ \A d \in Peer \ {c} : Untouched(d)

\* A task of the server concerns the client it serves,
LEMMA TaskConcerns ==
  ASSUME Shapes, NEW c \in Peer, Accept(c) \/ Task(c) \/ Break(c)
  PROVE  Concerns(c)
<1>1. Still /\ UNCHANGED server /\ UNCHANGED client
  BY DEF Accept, Task, Break, TlsAccept, WsAccept, HandleRequest, HandleOther, SeeEnd,
         TakeMessage, Still, client
<1>2. UNCHANGED <<pc, crps, at, result, spoken, opts, script>>
  BY <1>1 DEF client
<1>3. /\ \/ task' = task \/ \E x \in {"tls", "ws", "loop", "ended"} : task' = [task EXCEPT ![c] = x]
      /\ down' = down \/ down' = down \union {c}
      /\ \/ trouble' = trouble
         \/ \E S \in SUBSET Causes : trouble' = [trouble EXCEPT ![c] = @ \union S]
      /\ toServer' = toServer \/ \E x : toServer' = [toServer EXCEPT ![c] = x]
      /\ toClient' = toClient \/ \E x : toClient' = [toClient EXCEPT ![c] = x]
      /\ said' = said \/ \E x : said' = [said EXCEPT ![c] = x]
  <2>1. CASE Accept(c)
    BY <2>1 DEF Accept, history
  <2>2. CASE TlsAccept(c)
    BY <2>2 DEF TlsAccept, EndTask, history
  <2>3. CASE WsAccept(c)
    BY <2>3 DEF WsAccept, EndTask, history
  <2>4. CASE HandleRequest(c)
    BY <2>4 DEF HandleRequest, TakeMessage
  <2>5. CASE HandleOther(c)
    BY <2>5 DEF HandleOther, TakeMessage, EndTask
  <2>6. CASE SeeEnd(c)
    BY <2>6 DEF SeeEnd, EndTask, history
  <2>7. CASE Break(c)
    BY <2>7 DEF Break, Note, Causes
  <2>8. QED
    BY <2>1, <2>2, <2>3, <2>4, <2>5, <2>6, <2>7 DEF Task
<1>4. Shapes'
  BY <1>2, <1>3 DEF Shapes
<1>5. \A d \in Peer \ {c} : Untouched(d)
  BY <1>2, <1>3 DEF Shapes, Untouched
<1>6. QED
  BY <1>1, <1>4, <1>5 DEF Concerns

\* a step of get_chain that client,
LEMMA ClientConcerns ==
  ASSUME Shapes, NEW c \in Pulley, GetChain(c) \/ Stray(c)
  PROVE  Concerns(c)
<1>1. Still /\ UNCHANGED server
  BY DEF GetChain, ReadStore, Dial, CheckServer, Upgrade, FailConnect, Ask, FailAsk, Receive,
         FailReceive, Stray, Still, client
<1>2. /\ pc' = pc \/ \E x \in {"dial", "tls", "upgrade", "ask", "wait", "done"} : pc' = [pc EXCEPT ![c] = x]
      /\ crps' = crps \/ \E x : crps' = [crps EXCEPT ![c] = x]
      /\ at' = at \/ \E x : at' = [at EXCEPT ![c] = x]
      /\ result' = result \/ \E x : result' = [result EXCEPT ![c] = x]
      /\ task' = task \/ task' = [task EXCEPT ![c] = "backlog"]
      /\ down' = down \/ down' = down \union {c}
      /\ \/ trouble' = trouble
         \/ \E S \in SUBSET Causes : trouble' = [trouble EXCEPT ![c] = @ \union S]
      /\ toServer' = toServer \/ \E x : toServer' = [toServer EXCEPT ![c] = x]
      /\ toClient' = toClient \/ \E x : toClient' = [toClient EXCEPT ![c] = x]
      /\ said' = said /\ spoken' = spoken
  <2>1. CASE ReadStore(c)
    BY <2>1 DEF ReadStore, Return, Note, Amiss, Causes
  <2>2. CASE Dial(c)
    BY <2>2 DEF Dial, Return, history
  <2>3. CASE CheckServer(c)
    BY <2>3 DEF CheckServer, Return, history
  <2>4. CASE Upgrade(c)
    BY <2>4 DEF Upgrade, history
  <2>5. CASE FailConnect(c) \/ FailAsk(c) \/ FailReceive(c)
    BY <2>5 DEF FailConnect, FailAsk, FailReceive, Return, history
  <2>6. CASE Ask(c)
    BY <2>6 DEF Ask, history
  <2>7. CASE Receive(c)
    BY <2>7 DEF Receive, Return, history
  <2>8. CASE Stray(c)
    BY <2>8 DEF Stray, Note, Causes, client
  <2>9. QED
    BY <2>1, <2>2, <2>3, <2>4, <2>5, <2>6, <2>7, <2>8 DEF GetChain
<1>3. c \in Peer
  BY DEF Peer
<1>4. UNCHANGED <<opts, script>>
  BY <1>1 DEF Still
<1>5. Shapes'
  BY <1>2, <1>3, <1>4 DEF Shapes
<1>6. \A d \in Peer \ {c} : Untouched(d)
  BY <1>2, <1>3 DEF Shapes, Untouched
<1>7. QED
  BY <1>1, <1>5, <1>6 DEF Concerns

\* and a step of a guest that guest.
LEMMA GuestConcerns ==
  ASSUME Shapes, NEW g \in Guest, GuestDial(g) \/ GuestHello(g) \/ GuestSpeak(g)
  PROVE  Concerns(g)
<1>1. Still /\ UNCHANGED server
  BY DEF GuestDial, GuestHello, GuestSpeak, Still
<1>2. /\ pc' = pc \/ \E x \in {"quiet", "upgrade"} : pc' = [pc EXCEPT ![g] = x]
      /\ at' = at \/ \E x : at' = [at EXCEPT ![g] = x]
      /\ task' = task \/ task' = [task EXCEPT ![g] = "backlog"]
      /\ toServer' = toServer \/ \E x : toServer' = [toServer EXCEPT ![g] = x]
      /\ spoken' = spoken \/ \E x : spoken' = [spoken EXCEPT ![g] = x]
      /\ UNCHANGED <<crps, result, down, trouble, toClient, said>>
  BY DEF GuestDial, GuestHello, GuestSpeak, net, history
<1>3. g \in Peer
  BY DEF Peer
<1>4. UNCHANGED <<opts, script>>
  BY <1>1 DEF Still
<1>5. Shapes'
  BY <1>2, <1>3, <1>4 DEF Shapes
<1>6. \A d \in Peer \ {g} : Untouched(d)
  BY <1>2, <1>3 DEF Shapes, Untouched
<1>7. QED
  BY <1>1, <1>5, <1>6 DEF Concerns

\* Then it is enough to look at c.
LEMMA LookAtOne ==
  ASSUME SessionInv, NEW c \in Peer, Concerns(c), PeerInv(c)', c \in Pulley => PulleyInv(c)'
  PROVE  SessionInv'
<1>1. Still /\ UNCHANGED server /\ Shapes /\ Shapes' /\ ServerInv
  BY DEF SessionInv, Concerns
<1>2. ServerInv'
  BY <1>1 DEF ServerInv, server, Epoch, Mode, OwnStore
<1>3. ASSUME NEW d \in Peer \ {c} PROVE PeerInv(d)' /\ (d \in Pulley => PulleyInv(d)')
  BY <1>1, <1>3, UntouchedKept DEF SessionInv, Concerns
<1>4. Pulley \subseteq Peer
  BY DEF Peer
<1>5. QED
  BY <1>1, <1>2, <1>3, <1>4 DEF SessionInv
-----------------------------------------------------------------------------
(***************************************************************************)
(* The steps of chainsmith's tasks, and breaks of the connection.          *)
(***************************************************************************)
Inv(c) == PeerInv(c) /\ (c \in Pulley => PulleyInv(c))

\* The modes of what is about one client, by name.
LEMMA Parts ==
  ASSUME SessionInv, NEW c \in Peer
  PROVE  /\ Shapes /\ ServerInv /\ Life(c) /\ Talk(c) /\ InOrder(c)
         /\ c \in Pulley => Trust(c) /\ Mail(c) /\ Healthy(c) /\ Outcome(c)
         /\ pc[c] \in {"read", "dial", "quiet", "tls", "upgrade", "ask", "wait", "done"}
         /\ task[c] \in {"none", "backlog", "tls", "ws", "loop", "ended"}
         /\ c \in DOMAIN task /\ c \in DOMAIN pc /\ c \in DOMAIN at
         /\ c \in DOMAIN toServer /\ c \in DOMAIN toClient /\ c \in DOMAIN said
BY DEF SessionInv, Shapes, PeerInv, PulleyInv

\* chainsmith's steps do not move its clients.
LEMMA ClientStands ==
  ASSUME UNCHANGED <<client, server>>, NEW c
  PROVE  /\ Still /\ ModeKept(c) /\ Sent(c)' = Sent(c)
         /\ at'[c] = at[c] /\ pc'[c] = pc[c] /\ crps'[c] = crps[c] /\ result'[c] = result[c]
         /\ started' = started /\ srv' = srv /\ Epoch' = Epoch
BY DEF client, server, Still, ModeKept, Sent, Epoch

\* A step that says nothing and hears nothing.
LEMMA SilentStep ==
  ASSUME SessionInv, NEW c \in Peer, UNCHANGED <<client, server>>,
         toServer'[c] = toServer[c], said'[c] = said[c], c \in down => c \in down'
  PROVE  Talk(c)' /\ InOrder(c)'
BY Parts, ClientStands, TalkKept, InOrderKept

\* A connection is taken from the backlog.
LEMMA AcceptKeeps ==
  ASSUME SessionInv, NEW c \in Peer, Accept(c)
  PROVE  Inv(c)'
<1>1. /\ UNCHANGED <<client, server>> /\ srv = "serve" /\ task[c] = "backlog"
      /\ task'[c] = IF IsTlsUsed(Mode) THEN "tls" ELSE "ws"
      /\ toServer' = toServer /\ toClient' = toClient /\ said' = said /\ down' = down /\ trouble' = trouble
  BY Parts DEF Accept, history
<1>2. Life(c)'
  BY <1>1, Parts, ClientStands DEF Life
<1>3. Talk(c)' /\ InOrder(c)'
  BY <1>1, SilentStep
<1>4. ASSUME c \in Pulley PROVE PulleyInv(c)'
  <2>1. Trust(c)'
    <3>1. started[at[c]] = Mode /\ toClient[c] = <<>>
      BY <1>1, Parts DEF Life, Mode
    <3>2. started'[at'[c]] = Mode /\ opts' = opts
      BY <1>1, <3>1, ClientStands DEF Still
    <3>3. QED
      BY <1>1, <1>4, <3>1, <3>2, Parts, ClientStands DEF Trust
  <2>2. Mail(c)' /\ Healthy(c)' /\ Outcome(c)'
    BY <1>1, <1>4, Parts, ClientStands, MailKept, HealthyKept, OutcomeKept
  <2>3. QED
    BY <2>1, <2>2 DEF PulleyInv
<1>5. QED
  BY <1>2, <1>3, <1>4 DEF Inv, PeerInv

\* A task ends: its pulley has found it, or will find it, broken.
LEMMA EndKeeps ==
  ASSUME SessionInv, NEW c \in Peer, UNCHANGED <<client, server>>, EndTask(c),
         task[c] # "none", toServer'[c] \in Seq(Words(c)),
         UNCHANGED <<toClient, said, trouble>>,
         c \in Pulley => c \in down \/ (WrongScheme(c) /\ pc[c] \in {"tls", "upgrade"})
  PROVE  Inv(c)'
<1>1. task'[c] = "ended" /\ c \in down'
  BY Parts DEF EndTask
<1>2. Life(c)'
  BY <1>1, Parts, ClientStands DEF Life
<1>3. InOrder(c)'
  BY Parts, ClientStands, InOrderKept
<1>4. Talk(c)'
  BY <1>1, Parts, ClientStands, ScriptKept DEF Talk
<1>5. ASSUME c \in Pulley PROVE PulleyInv(c)'
  <2>1. Trust(c)'
    BY <1>1, <1>5, Parts, ClientStands, TrustKept
  <2>2. Mail(c)' /\ Outcome(c)'
    BY <1>5, Parts, ClientStands, MailKept, OutcomeKept
  <2>3. Healthy(c)'
    <3>1. CASE WrongScheme(c) /\ pc[c] \in {"tls", "upgrade"}
      <4>1. at[c] # 0
        BY Parts DEF Life
      <4>2. WrongScheme(c)' /\ (GenerateCrps(started[at[c]])' <=> GenerateCrps(started[at[c]]))
        BY <3>1, <4>1, ClientStands, SchemeKept
      <4>3. QED
        BY <1>5, <3>1, <4>2, Parts, ClientStands DEF Healthy
    <3>2. CASE c \in down
      BY <1>5, <3>2, Parts, ClientStands, HealthyKept
    <3>3. QED
      BY <1>5, <3>1, <3>2
  <2>4. QED
    BY <2>1, <2>2, <2>3 DEF PulleyInv
<1>6. QED
  BY <1>2, <1>3, <1>4, <1>5 DEF Inv, PeerInv

\* A pulley shows a certificate that every mode accepts.
LEMMA PreSharedAccepted ==
  ASSUME NEW mode, NEW store
  PROVE  AcceptsClient(mode, store, PreShared)
<1>1. VerifyClientCert(store, PreShared) = "ok"
  BY DEF VerifyClientCert, PreShared
<1>2. QED
  BY <1>1 DEF AcceptsClient

\* The server checks the certificate of its client, if it asks for one.
LEMMA TlsAcceptKeeps ==
  ASSUME SessionInv, NEW c \in Peer, TlsAccept(c)
  PROVE  Inv(c)'
<1>1. /\ UNCHANGED <<client, server>> /\ task[c] = "tls" /\ pc[c] = "upgrade"
      /\ toServer' = toServer /\ toClient' = toClient /\ said' = said /\ trouble' = trouble
  BY DEF TlsAccept, history
<1>2. CASE Scheme(c) = "wss"
  <2>1. task'[c] = "ws" /\ down' = down
    BY <1>2, Parts, PreSharedAccepted DEF TlsAccept
  <2>2. Life(c)'
    BY <1>1, <2>1, Parts, ClientStands DEF Life
  <2>3. Talk(c)' /\ InOrder(c)'
    BY <1>1, <2>1, SilentStep
  <2>4. ASSUME c \in Pulley PROVE PulleyInv(c)'
    <3>1. opts[c].scheme = "wss" /\ opts' = opts
      BY <1>1, <1>2, <2>4, ClientStands DEF Scheme, Still
    <3>2. Trust(c)'
      BY <1>1, <2>1, <2>4, <3>1, Parts, ClientStands DEF Trust
    <3>3. Mail(c)' /\ Healthy(c)' /\ Outcome(c)'
      BY <1>1, <2>1, <2>4, Parts, ClientStands, MailKept, HealthyKept, OutcomeKept
    <3>4. QED
      BY <3>2, <3>3 DEF PulleyInv
  <2>5. QED
    BY <2>2, <2>3, <2>4 DEF Inv, PeerInv
<1>3. CASE Scheme(c) # "wss"
  <2>1. EndTask(c)
    BY <1>3 DEF TlsAccept
  <2>2. c \in Pulley => WrongScheme(c)
    <3>1. c \in Pulley => IsTlsUsed(started[at[c]]) /\ opts[c].scheme # "wss"
      BY <1>1, <1>3, Parts DEF Trust, Scheme
    <3>2. QED
      BY <3>1 DEF WrongScheme, IsTlsUsed
  <2>3. toServer'[c] \in Seq(Words(c))
    BY <1>1, Parts DEF Talk
  <2>4. QED
    BY <1>1, <2>1, <2>2, <2>3, EndKeeps
<1>4. QED
  BY <1>2, <1>3

\* The websocket handshake.
LEMMA WsAcceptKeeps ==
  ASSUME SessionInv, NEW c \in Peer, WsAccept(c)
  PROVE  Inv(c)'
<1>1. /\ UNCHANGED <<client, server>> /\ task[c] = "ws"
      /\ toServer' = toServer /\ said' = said /\ trouble' = trouble
  BY DEF WsAccept, history
<1>2. CASE /\ pc[c] = "upgrade"
           /\ task' = [task EXCEPT ![c] = "loop"]
           /\ toClient' = [toClient EXCEPT ![c] = Append(@, Message("Upgraded"))]
           /\ UNCHANGED down
  <2>1. /\ task'[c] = "loop" /\ down' = down /\ toClient[c] = <<>>
        /\ toClient'[c] = <<Message("Upgraded")>>
    <3>1. toClient[c] = <<>>
      BY <1>1, Parts DEF Life
    <3>2. QED
      BY <1>2, <3>1, Parts
  <2>2. Life(c)'
    BY <1>1, <2>1, Parts, ClientStands DEF Life
  <2>3. Talk(c)' /\ InOrder(c)'
    BY <1>1, <2>1, SilentStep
  <2>4. ASSUME c \in Pulley PROVE PulleyInv(c)'
    <3>1. opts' = opts
      BY <1>1, ClientStands DEF Still
    <3>2. Trust(c)'
      BY <1>1, <1>2, <2>1, <2>4, <3>1, Parts, ClientStands DEF Trust
    <3>3. Mail(c)'
      <4>1. Message("Upgraded") # Message("Close")
        BY DEF Message
      <4>2. toClient'[c] \in Seq(Replies(c)')
        BY <2>1 DEF Replies
      <4>3. Len(toClient'[c]) = 1 /\ toClient'[c][1] = Message("Upgraded")
        BY <2>1
      <4>4. QED
        BY <1>1, <1>2, <4>1, <4>2, <4>3, ClientStands DEF Mail
    <3>4. Healthy(c)' /\ Outcome(c)'
      BY <1>1, <2>1, <2>4, Parts, ClientStands, HealthyKept, OutcomeKept
    <3>5. QED
      BY <3>2, <3>3, <3>4 DEF PulleyInv
  <2>5. QED
    BY <2>2, <2>3, <2>4 DEF Inv, PeerInv
<1>3. CASE pc[c] = "tls" /\ EndTask(c) /\ UNCHANGED toClient
  <2>1. c \in Pulley => WrongScheme(c)
    <3>1. c \in Pulley => ~IsTlsUsed(started[at[c]]) /\ opts[c].scheme = "wss"
      BY <1>1, <1>3, Parts DEF Trust
    <3>2. QED
      BY <3>1 DEF WrongScheme, IsTlsUsed
  <2>2. toServer'[c] \in Seq(Words(c))
    BY <1>1, Parts DEF Talk
  <2>3. QED
    BY <1>1, <1>3, <2>1, <2>2, EndKeeps
<1>4. QED
  BY <1>2, <1>3 DEF WsAccept

\* A task finds its connection closed.
LEMMA SeeEndKeeps ==
  ASSUME SessionInv, NEW c \in Peer, SeeEnd(c)
  PROVE  Inv(c)'
<1>1. /\ UNCHANGED <<client, server>> /\ task[c] # "none" /\ c \in down /\ EndTask(c)
      /\ toServer' = toServer /\ toClient' = toClient /\ said' = said /\ trouble' = trouble
  BY DEF SeeEnd, history
<1>2. toServer'[c] \in Seq(Words(c))
  BY <1>1, Parts DEF Talk
<1>3. QED
  BY <1>1, <1>2, EndKeeps

\* The network breaks a connection.
LEMMA BreakKeeps ==
  ASSUME SessionInv, NEW c \in Peer, Break(c)
  PROVE  Inv(c)'
<1>1. /\ UNCHANGED <<client, server>> /\ task' = task /\ task[c] # "none" /\ c \in down'
      /\ toServer' = toServer /\ toClient' = toClient /\ said' = said
      /\ c \in Pulley => trouble[c] \subseteq trouble'[c] /\ "lost" \in trouble'[c]
  BY Parts DEF Break, Connected, Note, Shapes
<1>2. Life(c)'
  BY <1>1, Parts, ClientStands DEF Life
<1>3. Talk(c)' /\ InOrder(c)'
  BY <1>1, SilentStep
<1>4. ASSUME c \in Pulley PROVE PulleyInv(c)'
  <2>1. Trust(c)' /\ Mail(c)' /\ Healthy(c)' /\ Outcome(c)'
    BY <1>1, <1>4, Parts, ClientStands, TrustKept, MailKept, HealthyKept, OutcomeKept
  <2>2. QED
    BY <2>1 DEF PulleyInv
<1>5. QED
  BY <1>2, <1>3, <1>4 DEF Inv, PeerInv

\* Sequences, as the next lemmas use them.
LEMMA TailFacts ==
  ASSUME NEW S, NEW q \in Seq(S), q # <<>>
  PROVE  /\ Len(q) \in Nat \ {0} /\ q[1] \in S /\ Head(q) = q[1]
         /\ Tail(q) \in Seq(S) /\ Len(Tail(q)) = Len(q) - 1
         /\ \A i \in 1..(Len(q) - 1) : Tail(q)[i] = q[i + 1]
OBVIOUS

\* What a message sent adds to a queue.
LEMMA AppendFacts ==
  ASSUME NEW S, NEW q \in Seq(S), NEW x \in S
  PROVE  /\ Len(q) \in Nat
         /\ Append(q, x) \in Seq(S) /\ Len(Append(q, x)) = Len(q) + 1
         /\ \A i \in 1..Len(q) : Append(q, x)[i] = q[i]
         /\ Append(q, x)[Len(q) + 1] = x
OBVIOUS

\* There are finitely many requests before a place in a script.
LEMMA BeforeFinite ==
  ASSUME Shapes, NEW c \in Peer, NEW n
  PROVE  IsFiniteSet(Before(c, n)) /\ Cardinality(Before(c, n)) \in Nat
<1>1. IsFiniteSet(1..Len(Script(c)))
  BY ScriptFacts, FS_Interval
<1>2. Before(c, n) \subseteq 1..Len(Script(c))
  BY DEF Before, Requests
<1>3. QED
  BY <1>1, <1>2, FS_Subset, FS_CardinalityType

\* Over a connection that is up, a task takes the message after the ones it
\* has handled.  A request is one more request, a ping is none.
LEMMA NextMessage ==
  ASSUME Shapes, NEW c \in Peer, Talk(c), c \notin down, toServer[c] # <<>>
  PROVE  LET n == Handled(c)
             msg == Script(c)[n + 1]
         IN  /\ n \in Nat /\ n + 1 \in 1..Len(Script(c)) /\ Head(toServer[c]) = msg
             /\ Deser(msg) = "some" =>
                  /\ n + 1 \in Requests(Script(c))
                  /\ Cardinality(Before(c, n + 1)) = Cardinality(Before(c, n)) + 1
             /\ Deser(msg) = "none" => Before(c, n + 1) = Before(c, n)
<1> DEFINE n == Handled(c)
           msg == Script(c)[n + 1]
<1>1. Len(Script(c)) \in Nat /\ Sent(c) \in 0..Len(Script(c)) /\ Len(toServer[c]) <= Sent(c)
  BY ScriptFacts DEF Talk
<1>2. Len(toServer[c]) \in Nat \ {0} /\ Head(toServer[c]) = toServer[c][1]
  BY TailFacts DEF Talk
<1>3. n \in Nat /\ n + 1 \in 1..Len(Script(c))
  BY <1>1, <1>2 DEF Handled
<1>4. Head(toServer[c]) = msg
  BY <1>2 DEF Talk
<1>5. \A l \in 1..n : Deser(Script(c)[l]) # "error"
  BY DEF Talk
<1>6. ASSUME Deser(msg) = "some"
      PROVE  n + 1 \in Requests(Script(c)) /\ Cardinality(Before(c, n + 1)) = Cardinality(Before(c, n)) + 1
  <2>1. msg.kind = "RequestChain"
    BY <1>3, <1>6, ScriptFacts
  <2>2. \A l \in 1..(n + 1) : Deser(Script(c)[l]) # "error"
    BY <1>3, <1>5, <1>6
  <2>3. n + 1 \in Requests(Script(c))
    BY <1>3, <2>1, <2>2 DEF Requests
  <2>4. Before(c, n + 1) = Before(c, n) \union {n + 1} /\ n + 1 \notin Before(c, n)
    BY <1>3, <2>3 DEF Before, Requests
  <2>5. QED
    BY <2>3, <2>4, BeforeFinite, FS_AddElement
<1>7. ASSUME Deser(msg) = "none" PROVE Before(c, n + 1) = Before(c, n)
  <2>1. msg.kind # "RequestChain"
    BY <1>3, <1>7, ScriptFacts
  <2>2. n + 1 \notin Requests(Script(c))
    BY <2>1 DEF Requests
  <2>3. QED
    BY <1>3, <2>2 DEF Before, Requests
<1>8. QED
  BY <1>3, <1>4, <1>6, <1>7

\* What is left over after a message was handled is the rest.
LEMMA MessageHandled ==
  ASSUME Shapes, NEW c \in Peer, Talk(c), c \notin down, toServer[c] # <<>>, Still,
         at'[c] = at[c], Sent(c)' = Sent(c), toServer'[c] = Tail(toServer[c]),
         Deser(Head(toServer[c])) # "error", said'[c] \in Seq(Answers(c)),
         Len(said'[c]) = Cardinality(Before(c, Handled(c) + 1))
  PROVE  Talk(c)'
<1> DEFINE n == Handled(c)
<1>1. n \in Nat /\ n + 1 \in 1..Len(Script(c)) /\ Head(toServer[c]) = Script(c)[n + 1]
  BY NextMessage
<1>2. /\ Len(toServer[c]) \in Nat \ {0} /\ Tail(toServer[c]) \in Seq(Words(c))
      /\ Len(Tail(toServer[c])) = Len(toServer[c]) - 1
      /\ \A i \in 1..(Len(toServer[c]) - 1) : Tail(toServer[c])[i] = toServer[c][i + 1]
  BY TailFacts DEF Talk
<1>3. Len(Script(c)) \in Nat /\ Sent(c) \in 0..Len(Script(c)) /\ Len(toServer[c]) <= Sent(c)
  BY ScriptFacts DEF Talk
<1>4. Handled(c)' = n + 1
  BY <1>2, <1>3 DEF Handled
<1>5. Script(c)' = Script(c) /\ Words(c)' = Words(c) /\ Answers(c)' = Answers(c)
      /\ Requests(Script(c))' = Requests(Script(c))
  BY ScriptKept
<1>6. \A i \in 1..Len(toServer'[c]) : toServer'[c][i] = Script(c)[n + 1 + i]
  <2> SUFFICES ASSUME NEW i \in 1..(Len(toServer[c]) - 1)
               PROVE  toServer[c][i + 1] = Script(c)[n + 1 + i]
    BY <1>2
  <2>1. i + 1 \in 1..Len(toServer[c]) /\ n + (i + 1) = n + 1 + i
    BY <1>1, <1>2
  <2>2. toServer[c][i + 1] = Script(c)[n + (i + 1)]
    BY <2>1 DEF Talk
  <2>3. QED
    BY <2>1, <2>2
<1>7. \A l \in 1..(n + 1) : Deser(Script(c)[l]) # "error"
  BY <1>1 DEF Talk
<1>8. Before(c, Handled(c))' = Before(c, n + 1)
  BY <1>4, <1>5 DEF Before
<1>9. Len(toServer'[c]) <= Sent(c)'
  BY <1>2, <1>3
<1>10. QED
  BY <1>2, <1>3, <1>4, <1>5, <1>6, <1>7, <1>8, <1>9 DEF Talk

\* A task that goes on, over a connection that is up.
LEMMA LoopGoesOn ==
  ASSUME SessionInv, NEW c \in Peer, UNCHANGED <<client, server>>, task[c] = "loop",
         task'[c] = "loop" \/ task'[c] = "ended", c \in down' <=> c \in down,
         trouble' = trouble
  PROVE  /\ Life(c)'
         /\ c \in Pulley => Healthy(c)' /\ Outcome(c)'
         /\ c \in Pulley => Trust(c)'
<1>1. Life(c)'
  BY Parts, ClientStands DEF Life
<1>2. c \in Pulley => Healthy(c)' /\ Outcome(c)'
  BY Parts, ClientStands, HealthyKept, OutcomeKept
<1>3. ASSUME c \in Pulley PROVE Trust(c)'
  <2>1. opts' = opts /\ ModeKept(c) /\ at[c] # 0
    BY Parts, ClientStands DEF Still, Life
  <2>2. QED
    BY <1>3, <2>1, Parts, ClientStands DEF Trust, ModeKept
<1>4. QED
  BY <1>1, <1>2, <1>3

\* A request is answered with the chain for its target, or with none.
LEMMA HandleRequestKeeps ==
  ASSUME SessionInv, NEW c \in Peer, HandleRequest(c)
  PROVE  Inv(c)'
<1> DEFINE n == Handled(c)
           answer == Answer(Head(toServer[c]).target, Epoch)
<1>1. /\ UNCHANGED <<client, server>> /\ task[c] = "loop" /\ toServer[c] # <<>>
      /\ toServer'[c] = Tail(toServer[c]) /\ trouble' = trouble
      /\ Deser(Head(toServer[c])) = "some"
  BY Parts DEF HandleRequest, TakeMessage
<1>2. Tail(toServer[c]) \in Seq(Words(c))
  BY <1>1, Parts, TailFacts DEF Talk
<1>3. CASE /\ c \notin down
           /\ toClient' = [toClient EXCEPT ![c] = Append(@, answer)]
           /\ said' = [said EXCEPT ![c] = Append(@, answer)]
           /\ UNCHANGED <<task, down>>
  <2>1. /\ toClient'[c] = Append(toClient[c], answer) /\ said'[c] = Append(said[c], answer)
        /\ task'[c] = "loop" /\ c \notin down'
    BY <1>1, <1>3, Parts
  <2>2. /\ n \in Nat /\ n + 1 \in 1..Len(Script(c)) /\ Head(toServer[c]) = Script(c)[n + 1]
        /\ n + 1 \in Requests(Script(c))
        /\ Cardinality(Before(c, n + 1)) = Cardinality(Before(c, n)) + 1
    BY <1>1, <1>3, Parts, NextMessage
  <2>3. at[c] = Epoch /\ answer = Answer(Script(c)[n + 1].target, at[c])
    BY <1>1, <2>2, Parts DEF Life
  <2>4. answer \in Answers(c)
    BY <2>2, <2>3 DEF Answers
  <2>5. /\ said'[c] \in Seq(Answers(c)) /\ Len(said[c]) \in Nat /\ Len(said'[c]) = Len(said[c]) + 1
        /\ \A i \in 1..Len(said[c]) : said'[c][i] = said[c][i]
        /\ said'[c][Len(said[c]) + 1] = answer
    BY <2>1, <2>4, Parts, AppendFacts DEF Talk
  <2>6. Len(said'[c]) = Cardinality(Before(c, n + 1))
    BY <1>3, <2>2, <2>5, Parts DEF Talk
  <2>7. Talk(c)'
    BY <1>1, <1>3, <2>5, <2>6, Parts, ClientStands, MessageHandled
  <2>8. InOrder(c)'
    <3>1. /\ Script(c)' = Script(c) /\ Requests(Script(c))' = Requests(Script(c)) /\ at'[c] = at[c]
          /\ \A i : Before(c, i)' = Before(c, i)
      BY <1>1, ClientStands, ScriptKept
    <3>2. ASSUME NEW j \in 1..Len(said'[c])
          PROVE  \E i \in Requests(Script(c)) :
                   Cardinality(Before(c, i)) = j /\ said'[c][j] = Answer(Script(c)[i].target, at[c])
      <4>1. CASE j \in 1..Len(said[c])
        BY <2>5, <4>1, Parts DEF InOrder
      <4>2. CASE j = Len(said[c]) + 1
        BY <2>2, <2>3, <2>5, <2>6, <4>2
      <4>3. QED
        BY <2>5, <4>1, <4>2
    <3>3. QED
      BY <3>1, <3>2 DEF InOrder
  <2>9. ASSUME c \in Pulley PROVE Mail(c)'
    <3>1. answer = Answer(opts[c].target, at[c])
      <4>1. Script(c) = <<Request(opts[c].target)>>
        BY <2>9 DEF Script
      <4>2. Script(c)[n + 1] = Request(opts[c].target)
        BY <2>2, <4>1
      <4>3. Request(opts[c].target).target = opts[c].target
        BY DEF Request
      <4>4. QED
        BY <2>3, <4>2, <4>3
    <3>2. answer # Message("Upgraded") /\ answer # Message("Close")
      BY DEF Answer, Message, ChainMsg
    <3>3. answer \in Replies(c) /\ Replies(c)' = Replies(c)
      BY <1>1, <3>1, ClientStands DEF Replies, Still
    <3>4. /\ toClient'[c] \in Seq(Replies(c)) /\ Len(toClient[c]) \in Nat
          /\ Len(toClient'[c]) = Len(toClient[c]) + 1
          /\ \A i \in 1..Len(toClient[c]) : toClient'[c][i] = toClient[c][i]
          /\ toClient'[c][Len(toClient[c]) + 1] = answer
      BY <2>1, <2>9, <3>3, Parts, AppendFacts DEF Mail
    <3>5. ASSUME NEW i \in 1..Len(toClient'[c])
          PROVE  /\ toClient'[c][i] = Message("Upgraded") => i = 1 /\ pc[c] \in {"upgrade", "done"}
                 /\ toClient'[c][i] = Message("Close") => "closed" \in trouble[c]
      <4>1. CASE i \in 1..Len(toClient[c])
        BY <2>9, <3>4, <4>1, Parts DEF Mail
      <4>2. CASE i = Len(toClient[c]) + 1
        BY <3>2, <3>4, <4>2
      <4>3. QED
        BY <3>4, <4>1, <4>2
    <3>6. QED
      BY <1>1, <3>3, <3>4, <3>5, ClientStands DEF Mail
  <2>10. Life(c)' /\ (c \in Pulley => Trust(c)' /\ Healthy(c)' /\ Outcome(c)')
    BY <1>1, <1>3, <2>1, LoopGoesOn
  <2>11. QED
    BY <2>7, <2>8, <2>9, <2>10 DEF Inv, PeerInv, PulleyInv
<1>4. CASE /\ c \in down
           /\ task' \in {task, [task EXCEPT ![c] = "ended"]}
           /\ UNCHANGED <<toClient, said, down>>
  <2>1. task'[c] \in {"loop", "ended"} /\ c \in down' /\ said' = said /\ toClient' = toClient
    BY <1>1, <1>4, Parts
  <2>2. Talk(c)'
    BY <1>1, <1>2, <2>1, Parts, ClientStands, ScriptKept DEF Talk
  <2>3. InOrder(c)' /\ (c \in Pulley => Mail(c)')
    BY <1>1, <2>1, Parts, ClientStands, InOrderKept, MailKept
  <2>4. Life(c)' /\ (c \in Pulley => Trust(c)' /\ Healthy(c)' /\ Outcome(c)')
    BY <1>1, <1>4, <2>1, LoopGoesOn
  <2>5. QED
    BY <2>2, <2>3, <2>4 DEF Inv, PeerInv, PulleyInv
<1>5. QED
  BY <1>3, <1>4 DEF HandleRequest

\* Any other message is ignored, or ends the task.
LEMMA HandleOtherKeeps ==
  ASSUME SessionInv, NEW c \in Peer, HandleOther(c)
  PROVE  Inv(c)'
<1>1. /\ UNCHANGED <<client, server>> /\ task[c] = "loop" /\ toServer[c] # <<>>
      /\ toServer'[c] = Tail(toServer[c]) /\ trouble' = trouble
      /\ Deser(Head(toServer[c])) # "some" /\ UNCHANGED <<toClient, said>>
  BY Parts DEF HandleOther, TakeMessage
<1>2. Tail(toServer[c]) \in Seq(Words(c)) /\ Head(toServer[c]) \in Words(c)
  BY <1>1, Parts, TailFacts DEF Talk
<1>3. c \notin Pulley
  <2> SUFFICES ASSUME c \in Pulley PROVE Deser(Head(toServer[c])) = "some"
    BY <1>1
  <2>1. Head(toServer[c]) = Request(opts[c].target)
    BY <1>2 DEF Words, Script
  <2>2. QED
    BY <2>1 DEF Deser, Request
<1>4. CASE Deser(Head(toServer[c])) = "none"
  <2>1. task' = task /\ down' = down
    BY <1>4 DEF HandleOther
  <2>2. Life(c)'
    BY <1>1, <2>1, LoopGoesOn
  <2>3. InOrder(c)'
    BY <1>1, Parts, ClientStands, InOrderKept
  <2>4. Talk(c)'
    <3>1. CASE c \in down
      BY <1>1, <1>2, <2>1, <3>1, Parts, ClientStands, ScriptKept DEF Talk
    <3>2. CASE c \notin down
      <4>1. Before(c, Handled(c) + 1) = Before(c, Handled(c))
        BY <1>1, <1>4, <3>2, Parts, NextMessage
      <4>2. said'[c] \in Seq(Answers(c)) /\ Len(said'[c]) = Cardinality(Before(c, Handled(c) + 1))
        BY <1>1, <3>2, <4>1, Parts DEF Talk
      <4>3. QED
        BY <1>1, <1>4, <3>2, <4>2, Parts, ClientStands, MessageHandled
    <3>3. QED
      BY <3>1, <3>2
  <2>5. QED
    BY <1>3, <2>2, <2>3, <2>4 DEF Inv, PeerInv
<1>5. CASE Deser(Head(toServer[c])) # "none"
  <2>1. EndTask(c)
    BY <1>5 DEF HandleOther
  <2>2. QED
    BY <1>1, <1>2, <1>3, <2>1, EndKeeps
<1>6. QED
  BY <1>4, <1>5
-----------------------------------------------------------------------------
(***************************************************************************)
(* The steps of a client.                                                  *)
(***************************************************************************)

\* Nothing has been said yet.
LEMMA FreshTalk ==
  ASSUME Shapes', NEW c \in Peer, toServer'[c] = <<>>, said'[c] = <<>>, Sent(c)' = 0
  PROVE  Talk(c)' /\ InOrder(c)'
<1>1. Len(Script(c)') \in Nat
  <2>1. CASE c \in Pulley
    BY <2>1 DEF Script
  <2>2. CASE c \notin Pulley
    BY <2>2, SessionAssumption DEF Script, Shapes, Peer
  <2>3. QED
    BY <2>1, <2>2
<1>2. Handled(c)' = 0 /\ Len(toServer'[c]) = 0 /\ Len(said'[c]) = 0
  <2>1. Len(toServer'[c]) = 0 /\ Len(said'[c]) = 0
    OBVIOUS
  <2>2. Handled(c)' = Sent(c)' - Len(toServer'[c])
    BY DEF Handled
  <2>3. QED
    BY <2>1, <2>2
<1>3. Before(c, Handled(c))' = {}
  BY <1>2 DEF Before, Requests
<1>4. Cardinality(Before(c, Handled(c)))' = 0
  BY <1>3, FS_EmptySet
<1>5. QED
  BY <1>1, <1>2, <1>4 DEF Talk, InOrder

\* What get_chain's steps have in common.
LEMMA PulleyFacts ==
  ASSUME SessionInv, NEW c \in Pulley, Concerns(c)
  PROVE  /\ c \in Peer /\ c \notin Guest /\ Still /\ opts' = opts /\ opts[c].scheme \in {"ws", "wss"}
         /\ started' = started /\ srv' = srv /\ file' = file
         /\ Epoch' = Epoch /\ Mode' = Mode /\ OwnStore' = OwnStore
         /\ Epoch \in Nat /\ at[c] \in 0..Epoch
         /\ Replies(c)' = {Message("Upgraded"), Message("Ping"), Message("Close"),
                           Answer(opts[c].target, at'[c])}
         /\ c \in DOMAIN crps /\ c \in DOMAIN result
<1>1. c \in Peer /\ c \notin Guest
  BY SessionAssumption DEF Peer
<1>2. Still /\ UNCHANGED server /\ opts' = opts
  BY DEF Concerns, Still
<1>3. started' = started /\ srv' = srv /\ file' = file
      /\ Epoch' = Epoch /\ Mode' = Mode /\ OwnStore' = OwnStore
  BY <1>2 DEF server, Epoch, Mode, OwnStore
<1>4. opts[c].scheme \in {"ws", "wss"}
  BY SessionAssumption DEF SessionInv, Shapes
<1>5. Epoch \in Nat /\ at[c] \in 0..Epoch
  BY <1>1, Parts DEF ServerInv, Life, Epoch
<1>6. Replies(c)' = {Message("Upgraded"), Message("Ping"), Message("Close"), Answer(opts[c].target, at'[c])}
  BY <1>2 DEF Replies
<1>7. c \in DOMAIN crps /\ c \in DOMAIN result
  BY DEF SessionInv, Shapes
<1>8. QED
  BY <1>1, <1>2, <1>3, <1>4, <1>5, <1>6, <1>7

\* get_chain returns with a result it may return.
LEMMA ReturnKeeps ==
  ASSUME SessionInv, NEW c \in Pulley, Concerns(c), NEW value, Return(c, value),
         at' = at, task' = task, toServer' = toServer, said' = said, crps' = crps,
         toClient[c] = <<>> => toClient'[c] = <<>>,
         trouble[c] \subseteq trouble'[c], Mail(c)',
         \/ \E kind \in Errors : value = Err(kind) /\ Excuse(c, kind)'
         \/ /\ value = Ok(opts[c].target, at[c]) /\ opts[c].target \in Arch /\ at[c] # 0
            /\ GenerateCrps(started[at[c]]) => crps[c] = NewRandom(at[c])
  PROVE  Inv(c)'
<1>1. /\ pc'[c] = "done" /\ result'[c] = value
      /\ task[c] = "none" => down' = down
      /\ task[c] # "none" => c \in down'
  BY PulleyFacts, Parts DEF Return
<1>2. Sent(c)' = 0
  BY <1>1, PulleyFacts DEF Sent
<1>3. Life(c)'
  BY <1>1, <1>2, PulleyFacts, Parts DEF Life
<1>4. Talk(c)'
  <2>1. CASE task[c] = "none"
    <3>1. Sent(c)' = Sent(c) /\ c \notin down
      BY <1>2, <2>1, PulleyFacts, Parts DEF Life
    <3>2. QED
      BY <3>1, PulleyFacts, Parts, TalkKept
  <2>2. CASE task[c] # "none"
    BY <1>1, <2>2, PulleyFacts, Parts, TalkKept
  <2>3. QED
    BY <2>1, <2>2
<1>5. InOrder(c)'
  BY PulleyFacts, Parts, InOrderKept
<1>6. ModeKept(c)
  BY PulleyFacts DEF ModeKept
<1>7. Trust(c)'
  BY <1>1, <1>6, PulleyFacts, Parts, TrustKept
<1>8. Healthy(c)'
  BY <1>1, <1>6, PulleyFacts, Parts, HealthyKept DEF Concerns
<1>9. Outcome(c)'
  <2>1. value # Pending
    BY DEF Err, Ok, Pending, Errors
  <2>2. QED
    BY <1>1, <2>1, PulleyFacts DEF Outcome
<1>10. QED
  BY <1>3, <1>4, <1>5, <1>7, <1>8, <1>9 DEF Inv, PeerInv, PulleyInv

\* get_chain fails because its connection has.
LEMMA FailKeeps ==
  ASSUME SessionInv, NEW c \in Pulley, FailConnect(c) \/ FailAsk(c) \/ FailReceive(c)
  PROVE  Inv(c)'
<1>1. Concerns(c)
  BY ClientConcerns, Parts DEF GetChain, Peer
<1>2. PICK kind \in {"Connect", "SendRequest", "WsRecv"} :
        /\ Return(c, Err(kind))
        /\ kind = "Connect" => pc[c] \in {"tls", "upgrade"}
        /\ kind # "Connect" => pc[c] \in {"ask", "wait"}
  BY DEF FailConnect, FailAsk, FailReceive
<1>3. /\ UNCHANGED <<at, task, toServer, toClient, said, crps, trouble>>
      /\ c \in down /\ pc[c] # "done"
  BY DEF FailConnect, FailAsk, FailReceive, history
<1>4. kind \in Errors /\ Excuse(c, kind)'
  <2>1. "lost" \in trouble[c] \/ (kind = "Connect" /\ WrongUrl(c))
    BY <1>1, <1>2, <1>3, Parts, PulleyFacts DEF Healthy, WrongScheme, WrongUrl
  <2>2. kind \in Errors /\ Excuse(c, kind)
    BY <2>1 DEF Excuse, Errors
  <2>3. ModeKept(c) /\ crps'[c] = crps[c] /\ trouble[c] \subseteq trouble'[c]
    BY <1>1, <1>3, PulleyFacts DEF ModeKept
  <2>4. QED
    BY <1>1, <2>2, <2>3, PulleyFacts, ExcuseKept
<1>5. Mail(c)'
  <2>1. pc'[c] = "done"
    BY <1>1, <1>2, Parts, PulleyFacts DEF Return
  <2>2. QED
    BY <1>1, <1>3, <2>1, Parts, PulleyFacts, MailKept
<1>6. QED
  BY <1>1, <1>2, <1>3, <1>4, <1>5, ReturnKeeps

\* pulley reads its key store.
LEMMA ReadStoreKeeps ==
  ASSUME SessionInv, NEW c \in Pulley, ReadStore(c)
  PROVE  Inv(c)'
<1>1. Concerns(c)
  BY ClientConcerns, Parts DEF GetChain, Peer
<1>2. /\ UNCHANGED <<at, task, toServer, toClient, said>> /\ pc[c] = "read"
      /\ trouble'[c] = trouble[c] \union Amiss
  BY DEF ReadStore, Note, SessionInv, Shapes
<1>3. task[c] = "none" /\ toClient[c] = <<>> /\ c \notin down
  BY <1>1, <1>2, Parts, PulleyFacts DEF Life
<1>4. CASE file.state = "partial"
  <2>1. Return(c, Err("panic")) /\ crps' = crps
    BY <1>4 DEF ReadStore
  <2>2. ~StoreServed
    <3>1. StoreServed => file = StoreFile(OwnStore)
      BY <1>1, Parts, PulleyFacts DEF ServerInv, StoreServed
    <3>2. QED
      BY <1>4, <3>1 DEF StoreFile
  <2>3. Mail(c)'
    <3>1. pc'[c] = "done"
      BY <1>1, <2>1, Parts, PulleyFacts DEF Return
    <3>2. QED
      BY <1>1, <1>2, <3>1, Parts, PulleyFacts, MailKept
  <2>4. "half" \in trouble'[c]
    BY <1>2, <1>4, <2>2 DEF Amiss
  <2>5. "panic" \in Errors /\ Excuse(c, "panic")'
    BY <2>4 DEF Errors, Excuse
  <2>6. QED
    BY <1>1, <1>2, <2>1, <2>3, <2>5, ReturnKeeps
<1>5. CASE file.state # "partial"
  <2>1. /\ pc'[c] = "dial" /\ result' = result /\ down' = down
        /\ crps'[c] = IF file.state = "whole" THEN file.crps ELSE NewRandom(c)
    BY <1>1, <1>5, Parts, PulleyFacts DEF ReadStore
  <2>2. Sent(c)' = 0
    BY <1>1, <2>1, PulleyFacts DEF Sent
  <2>3. Life(c)'
    BY <1>1, <1>2, <1>3, <2>1, <2>2, Parts, PulleyFacts DEF Life
  <2>4. Talk(c)' /\ InOrder(c)'
    <3>1. Shapes' /\ toServer[c] = <<>> /\ said[c] = <<>>
      BY <1>1, <1>3, Parts, PulleyFacts DEF Life, Concerns
    <3>2. QED
      BY <1>1, <1>2, <2>2, <3>1, PulleyFacts, FreshTalk
  <2>5. crps'[c] \in Stores /\ crps'[c].used = {} /\ crps'[c].origin # 0
    <3>1. CASE file.state = "whole"
      <4>1. PICK e \in 1..Epoch : file = StoreFile(NewRandom(e))
        BY <1>1, <3>1, Parts, PulleyFacts DEF ServerInv, NoFile, PartFile
      <4>2. crps'[c] = NewRandom(e)
        BY <2>1, <3>1, <4>1 DEF StoreFile
      <4>3. e \in 0..MaxStarts /\ e # 0
        BY <1>1, Parts, PulleyFacts, SessionAssumption DEF ServerInv
      <4>4. QED
        BY <4>2, <4>3 DEF NewRandom, Stores
    <3>2. CASE file.state # "whole"
      <4>1. crps'[c] = NewRandom(c) /\ c # 0
        BY <2>1, <3>2, SessionAssumption
      <4>2. QED
        BY <4>1 DEF NewRandom, Stores
    <3>3. QED
      BY <3>1, <3>2
  <2>6. Trust(c)'
    BY <1>1, <1>2, <1>3, <2>1, <2>5, PulleyFacts DEF Trust, Stores
  <2>7. Mail(c)'
    BY <1>2, <1>3 DEF Mail
  <2>8. Healthy(c)'
    <3>1. GenerateCrps(Mode) /\ srv = "serve" => crps'[c] = OwnStore
      <4>1. GenerateCrps(Mode) /\ srv = "serve" => file = StoreFile(OwnStore)
        BY <1>1, Parts, PulleyFacts DEF ServerInv
      <4>2. QED
        BY <2>1, <4>1 DEF StoreFile
    <3>2. srv # "serve" => "early" \in trouble'[c]
      BY <1>2, <1>5 DEF Amiss
    <3>3. QED
      BY <1>1, <1>2, <1>3, <2>1, <3>1, <3>2, PulleyFacts DEF Healthy
  <2>9. Outcome(c)'
    BY <1>1, <1>2, <2>1, Parts, PulleyFacts DEF Outcome
  <2>10. QED
    BY <2>3, <2>4, <2>6, <2>7, <2>8, <2>9 DEF Inv, PeerInv, PulleyInv
<1>6. QED
  BY <1>4, <1>5

\* pulley connects.
LEMMA DialKeeps ==
  ASSUME SessionInv, NEW c \in Pulley, Dial(c)
  PROVE  Inv(c)'
<1>1. Concerns(c)
  BY ClientConcerns, Parts DEF GetChain, Peer
<1>2. UNCHANGED <<toServer, toClient, said, crps, trouble>> /\ pc[c] = "dial"
  BY DEF Dial, history
<1>3. /\ task[c] = "none" /\ toClient[c] = <<>> /\ toServer[c] = <<>> /\ said[c] = <<>>
      /\ c \notin down
  BY <1>1, <1>2, Parts, PulleyFacts DEF Life
<1>4. CASE srv = "off"
  <2>1. Return(c, Err("Connect")) /\ at' = at /\ task' = task
    BY <1>4 DEF Dial
  <2>2. at[c] = 0
    BY <1>1, <1>2, Parts, PulleyFacts DEF Life
  <2>3. Mail(c)'
    BY <1>2, <1>3 DEF Mail
  <2>4. "Connect" \in Errors /\ Excuse(c, "Connect")'
    BY <2>1, <2>2 DEF Errors, Excuse
  <2>5. QED
    BY <1>1, <1>2, <2>1, <2>2, <2>3, <2>4, ReturnKeeps
<1>5. CASE srv # "off"
  <2>1. /\ pc'[c] = IF opts[c].scheme = "wss" THEN "tls" ELSE "upgrade"
        /\ at'[c] = Epoch /\ task'[c] = "backlog" /\ result' = result /\ down' = down
    BY <1>1, <1>5, Parts, PulleyFacts DEF Dial
  <2>2. Epoch \in Nat \ {0}
    BY <1>1, <1>5, Parts, PulleyFacts DEF ServerInv
  <2>3. Sent(c)' = 0
    BY <1>1, <2>1, PulleyFacts DEF Sent
  <2>4. Life(c)'
    BY <1>1, <1>2, <1>3, <1>5, <2>1, <2>2, PulleyFacts DEF Life
  <2>5. Talk(c)' /\ InOrder(c)'
    BY <1>1, <1>2, <1>3, <2>3, PulleyFacts, FreshTalk DEF Concerns
  <2>6. Trust(c)'
    BY <1>1, <1>2, <1>3, <2>1, Parts, PulleyFacts DEF Trust, Stores
  <2>7. Mail(c)'
    BY <1>2, <1>3 DEF Mail
  <2>8. Healthy(c)'
    <3>1. started'[at'[c]] = Mode /\ OwnStore = NewRandom(at'[c])
      BY <1>1, <2>1, PulleyFacts DEF Mode, OwnStore
    <3>2. QED
      BY <1>1, <1>2, <1>3, <2>1, <3>1, Parts, PulleyFacts DEF Healthy
  <2>9. Outcome(c)'
    BY <1>1, <1>2, <2>1, Parts, PulleyFacts DEF Outcome
  <2>10. QED
    BY <2>4, <2>5, <2>6, <2>7, <2>8, <2>9 DEF Inv, PeerInv, PulleyInv
<1>6. QED
  BY <1>4, <1>5

\* A certificate made from a store is accepted with that store alone, and by
\* its own name.
LEMMA Verdicts ==
  ASSUME NEW mode, NEW e, NEW store, store.used = {}, NEW name
  PROVE  LET verdict == VerifyServerCert(store, OwnCert(mode, NewRandom(e)), name)
         IN  /\ verdict = "ok" /\ GenerateCrps(mode) => store.origin = e
             /\ /\ name = "localhost"
                /\ GenerateCrps(mode) => store = NewRandom(e) /\ ~GenCertPanics(NewRandom(e))
                => verdict = "ok"
             /\ verdict = "panic" => GenerateCrps(mode) /\ GenCertPanics(NewRandom(e))
<1> DEFINE own == NewRandom(e)
           cert == OwnCert(mode, own)
           verdict == VerifyServerCert(store, cert, name)
<1>1. CASE GenerateCrps(mode)
  <2>1. /\ cert = GenCert(own) /\ cert.challenge = CertChallenge
        /\ cert.answer = Respond(own, CertChallenge).answer /\ cert.names = {"localhost"}
    BY <1>1 DEF OwnCert, GenCert
  <2>2. CertChallenge # NoChallenge
    BY KeysAssumption DEF NoChallenge
  <2>3. CASE CertChallenge >= NChallenges
    <3>1. Respond(store, CertChallenge).kind = "Invalid" /\ Respond(own, CertChallenge).kind = "Invalid"
      BY <2>3 DEF Respond
    <3>2. verdict = "panic" /\ GenCertPanics(own)
      BY <2>1, <2>2, <3>1 DEF VerifyServerCert, GenCertPanics
    <3>3. QED
      BY <1>1, <3>2
  <2>4. CASE ~(CertChallenge >= NChallenges)
    <3>1. Respond(store, CertChallenge).kind = "Unused"
      BY <2>4 DEF Respond
    <3>2. /\ Respond(store, CertChallenge).answer = [origin |-> store.origin, challenge |-> CertChallenge]
          /\ Respond(own, CertChallenge).answer = [origin |-> e, challenge |-> CertChallenge]
      BY <2>4 DEF Respond, NewRandom
    <3>3. SignatureHolds(store, cert) <=> store.origin = e
      BY <2>1, <3>2 DEF SignatureHolds
    <3>4. verdict = IF name # "ip" /\ SignatureHolds(store, cert) /\ name \in {"localhost"} THEN "ok" ELSE "refused"
      BY <2>1, <2>2, <3>1 DEF VerifyServerCert
    <3>5. store = own => store.origin = e
      BY DEF NewRandom
    <3>6. QED
      BY <1>1, <3>3, <3>4, <3>5
  <2>5. QED
    BY <2>3, <2>4
<1>2. CASE ~GenerateCrps(mode)
  <2>1. cert.challenge = NoChallenge /\ cert.names = {"localhost"}
    BY <1>2 DEF OwnCert, PreShared
  <2>2. verdict = IF name \in {"localhost"} THEN "ok" ELSE "refused"
    BY <2>1 DEF VerifyServerCert
  <2>3. QED
    BY <1>2, <2>2
<1>3. QED
  BY <1>1, <1>2

\* pulley checks the certificate of the server.
LEMMA CheckServerKeeps ==
  ASSUME SessionInv, NEW c \in Pulley, CheckServer(c)
  PROVE  Inv(c)'
<1> DEFINE verdict == VerifyServerCert(crps[c], OwnCert(Mode, OwnStore), opts[c].name)
<1>1. Concerns(c)
  BY ClientConcerns, Parts DEF GetChain, Peer
<1>2. /\ UNCHANGED <<at, task, toServer, toClient, said, crps, trouble>>
      /\ pc[c] = "tls" /\ task[c] = "tls" /\ c \notin down
  BY DEF CheckServer, history
<1>3. /\ at[c] = Epoch /\ at[c] # 0 /\ started[at[c]] = Mode /\ toClient[c] = <<>>
      /\ opts[c].scheme = "wss" /\ crps[c].used = {} /\ crps[c] \in Stores
  BY <1>1, <1>2, Parts, PulleyFacts DEF Life, Mode, Trust
<1>4. Mail(c)'
  BY <1>2, <1>3 DEF Mail
<1>5. CASE verdict = "ok"
  <2>1. pc'[c] = "upgrade" /\ result' = result /\ down' = down
    BY <1>1, <1>5, Parts, PulleyFacts DEF CheckServer
  <2>2. Sent(c)' = Sent(c)
    BY <1>1, <1>2, <2>1, PulleyFacts DEF Sent
  <2>3. Life(c)'
    BY <1>1, <1>2, <2>1, <2>2, Parts, PulleyFacts DEF Life
  <2>4. Talk(c)' /\ InOrder(c)'
    BY <1>1, <1>2, <2>1, <2>2, Parts, PulleyFacts, TalkKept, InOrderKept
  <2>5. GenerateCrps(Mode) => crps[c] = NewRandom(at[c])
    <3>1. GenerateCrps(Mode) => crps[c].origin = Epoch
      BY <1>3, <1>5, Verdicts DEF OwnStore
    <3>2. QED
      BY <1>3, <3>1 DEF Stores, NewRandom
  <2>6. Trust(c)'
    BY <1>1, <1>2, <1>3, <2>1, <2>5, Parts, PulleyFacts DEF Trust, Stores
  <2>7. Healthy(c)'
    BY <1>1, <1>2, <1>3, <2>1, <2>5, Parts, PulleyFacts DEF Healthy
  <2>8. Outcome(c)'
    BY <1>1, <1>2, <2>1, Parts, PulleyFacts DEF Outcome
  <2>9. QED
    BY <1>4, <2>3, <2>4, <2>6, <2>7, <2>8 DEF Inv, PeerInv, PulleyInv
<1>6. CASE verdict # "ok"
  <2>1. GenerateCrps(Mode) => ~GenCertPanics(OwnStore)
    BY <1>1, <1>2, Parts, PulleyFacts DEF Life, ServerInv
  <2>2. verdict # "panic"
    BY <1>3, <2>1, Verdicts DEF OwnStore
  <2>3. Return(c, Err("Connect")) /\ "Connect" \in Errors
    BY <1>6, <2>2 DEF CheckServer, Errors
  <2>4. WrongUrl(c) \/ WrongStore(c)
    <3> SUFFICES ASSUME opts[c].name = "localhost" PROVE WrongStore(c)
      BY <1>3 DEF WrongUrl
    <3>1. GenerateCrps(Mode) /\ crps[c] # NewRandom(Epoch)
      BY <1>3, <1>6, <2>1, Verdicts DEF OwnStore
    <3>2. "early" \in trouble[c]
      BY <1>1, <1>2, <1>3, <3>1, Parts, PulleyFacts DEF Healthy
    <3>3. QED
      BY <1>3, <3>1, <3>2 DEF WrongStore
  <2>5. Excuse(c, "Connect")'
    <3>1. Excuse(c, "Connect")
      BY <2>4 DEF Excuse
    <3>2. ModeKept(c) /\ crps'[c] = crps[c] /\ trouble[c] \subseteq trouble'[c]
      BY <1>1, <1>2, PulleyFacts DEF ModeKept
    <3>3. QED
      BY <1>1, <3>1, <3>2, PulleyFacts, ExcuseKept
  <2>6. QED
    BY <1>1, <1>2, <1>4, <2>3, <2>5, ReturnKeeps
<1>7. QED
  BY <1>5, <1>6

\* A message is taken off what is under way to a pulley.
LEMMA MailTaken ==
  ASSUME SessionInv, NEW c \in Pulley, Concerns(c), at' = at, trouble' = trouble, toClient[c] # <<>>,
         toClient' = [toClient EXCEPT ![c] = Tail(@)]
  PROVE  /\ Mail(c)' /\ Head(toClient[c]) \in Replies(c)
         /\ Head(toClient[c]) = Message("Upgraded") => pc[c] \in {"upgrade", "done"}
         /\ Head(toClient[c]) = Message("Close") => "closed" \in trouble[c]
<1>1. toClient'[c] = Tail(toClient[c]) /\ Mail(c)
  BY Parts, PulleyFacts
<1>2. Replies(c)' = Replies(c)
  BY PulleyFacts DEF Replies
<1>3. /\ toClient'[c] \in Seq(Replies(c)) /\ Head(toClient[c]) \in Replies(c)
      /\ Len(toClient[c]) \in Nat \ {0} /\ Len(toClient'[c]) = Len(toClient[c]) - 1
      /\ Head(toClient[c]) = toClient[c][1]
      /\ \A i \in 1..(Len(toClient[c]) - 1) : toClient'[c][i] = toClient[c][i + 1]
  BY <1>1, TailFacts DEF Mail
<1>4. ASSUME NEW i \in 1..Len(toClient'[c])
      PROVE  toClient'[c][i] # Message("Upgraded") /\ (toClient'[c][i] = Message("Close") => "closed" \in trouble[c])
  <2>1. i + 1 \in 1..Len(toClient[c]) /\ i + 1 # 1 /\ toClient'[c][i] = toClient[c][i + 1]
    BY <1>3
  <2>2. QED
    BY <1>1, <2>1 DEF Mail
<1>5. Mail(c)'
  BY <1>2, <1>3, <1>4 DEF Mail
<1>6. QED
  BY <1>1, <1>3, <1>5 DEF Mail

\* The websocket handshake, seen from pulley.
LEMMA UpgradeKeeps ==
  ASSUME SessionInv, NEW c \in Pulley, Upgrade(c)
  PROVE  Inv(c)'
<1>1. Concerns(c)
  BY ClientConcerns, Parts DEF GetChain, Peer
<1>2. /\ UNCHANGED <<at, task, toServer, said, crps, trouble, result, down>>
      /\ pc[c] = "upgrade" /\ pc'[c] = "ask" /\ toClient[c] # <<>>
      /\ toClient' = [toClient EXCEPT ![c] = Tail(@)]
  BY <1>1, Parts, PulleyFacts DEF Upgrade, history
<1>3. task[c] \in {"loop", "ended"}
  BY <1>1, <1>2, Parts, PulleyFacts DEF Life
<1>4. Sent(c)' = Sent(c)
  BY <1>1, <1>2, PulleyFacts DEF Sent
<1>5. Life(c)'
  BY <1>1, <1>2, <1>3, <1>4, Parts, PulleyFacts DEF Life
<1>6. Talk(c)' /\ InOrder(c)'
  BY <1>1, <1>2, <1>4, Parts, PulleyFacts, TalkKept, InOrderKept
<1>7. Trust(c)'
  BY <1>1, <1>2, <1>3, Parts, PulleyFacts DEF Trust, Stores
<1>8. Mail(c)'
  BY <1>1, <1>2, MailTaken
<1>9. Healthy(c)'
  <2>1. ~WrongScheme(c)
    BY <1>1, <1>2, Parts, PulleyFacts DEF Trust, WrongScheme, IsTlsUsed
  <2>2. QED
    BY <1>1, <1>2, <2>1, Parts, PulleyFacts DEF Healthy
<1>10. Outcome(c)'
  BY <1>1, <1>2, Parts, PulleyFacts DEF Outcome
<1>11. QED
  BY <1>5, <1>6, <1>7, <1>8, <1>9, <1>10 DEF Inv, PeerInv, PulleyInv

\* pulley asks for the chain of its target.
LEMMA AskKeeps ==
  ASSUME SessionInv, NEW c \in Pulley, Ask(c)
  PROVE  Inv(c)'
<1>1. Concerns(c)
  BY ClientConcerns, Parts DEF GetChain, Peer
<1>2. /\ UNCHANGED <<at, task, toClient, said, crps, trouble, result, down>>
      /\ pc[c] = "ask" /\ pc'[c] = "wait"
      /\ toServer'[c] = IF c \in down THEN toServer[c] ELSE Append(toServer[c], Request(opts[c].target))
  BY <1>1, Parts, PulleyFacts DEF Ask, history
<1>3. task[c] \in {"loop", "ended"}
  BY <1>1, <1>2, Parts, PulleyFacts DEF Life
<1>4. Life(c)'
  BY <1>1, <1>2, <1>3, Parts, PulleyFacts DEF Life
<1>5. InOrder(c)'
  BY <1>1, <1>2, Parts, PulleyFacts, InOrderKept
<1>6. Talk(c)'
  <2>1. CASE c \in down
    BY <1>1, <1>2, <2>1, Parts, PulleyFacts, TalkKept
  <2>2. CASE c \notin down
    <3>1. Script(c) = <<Request(opts[c].target)>> /\ Script(c)' = Script(c)
      BY <1>1, <1>2, PulleyFacts, ScriptKept DEF Script
    <3>2. Len(Script(c)) = 1 /\ Script(c)[1] = Request(opts[c].target)
      BY <3>1
    <3>3. Sent(c) = 0 /\ Sent(c)' = 1
      BY <1>1, <1>2, PulleyFacts DEF Sent
    <3>4. toServer[c] = <<>> /\ Handled(c) = 0
      <4>1. Len(toServer[c]) <= 0 /\ toServer[c] \in Seq(Words(c))
        BY <1>1, <2>2, <3>3, Parts, PulleyFacts DEF Talk
      <4>2. toServer[c] = <<>> /\ Len(toServer[c]) = 0
        BY <4>1
      <4>3. Handled(c) = Sent(c) - Len(toServer[c])
        BY DEF Handled
      <4>4. QED
        BY <3>3, <4>2, <4>3
    <3>5. toServer'[c] = <<Request(opts[c].target)>>
      BY <1>2, <2>2, <3>4
    <3>6. Len(toServer'[c]) = 1 /\ toServer'[c][1] = Script(c)[1]
      BY <3>2, <3>5
    <3>7. Handled(c)' = 0
      <4>1. Handled(c)' = Sent(c)' - Len(toServer'[c])
        BY DEF Handled
      <4>2. QED
        BY <3>3, <3>6, <4>1
    <3>8. toServer'[c] \in Seq(Words(c)) /\ Words(c)' = Words(c) /\ Answers(c)' = Answers(c)
      <4>1. Request(opts[c].target) \in Words(c)
        BY <3>2 DEF Words
      <4>2. toServer'[c] \in Seq(Words(c))
        BY <3>5, <4>1
      <4>3. QED
        BY <1>1, <1>2, <4>2, PulleyFacts, ScriptKept
    <3>9. Before(c, Handled(c))' = Before(c, Handled(c))
      BY <1>1, <1>2, <3>4, <3>7, PulleyFacts, ScriptKept DEF Before
    <3>10. Len(said'[c]) = Cardinality(Before(c, Handled(c)))' /\ said'[c] \in Seq(Answers(c)')
      BY <1>1, <1>2, <2>2, <3>8, <3>9, Parts, PulleyFacts DEF Talk
    <3>11. QED
      BY <3>1, <3>2, <3>3, <3>6, <3>7, <3>8, <3>10 DEF Talk
  <2>3. QED
    BY <2>1, <2>2
<1>7. Trust(c)'
  BY <1>1, <1>2, <1>3, Parts, PulleyFacts DEF Trust, Stores
<1>8. Mail(c)'
  BY <1>1, <1>2, Parts, PulleyFacts DEF Mail, Replies
<1>9. Healthy(c)'
  BY <1>1, <1>2, Parts, PulleyFacts DEF Healthy
<1>10. Outcome(c)'
  BY <1>1, <1>2, Parts, PulleyFacts DEF Outcome
<1>11. QED
  BY <1>4, <1>5, <1>6, <1>7, <1>8, <1>9, <1>10 DEF Inv, PeerInv, PulleyInv

\* The answer arrives.
LEMMA ReceiveKeeps ==
  ASSUME SessionInv, NEW c \in Pulley, Receive(c)
  PROVE  Inv(c)'
<1> DEFINE msg == Head(toClient[c])
<1>1. Concerns(c)
  BY ClientConcerns, Parts DEF GetChain, Peer
<1>2. /\ UNCHANGED <<at, task, toServer, said, crps, trouble>>
      /\ pc[c] = "wait" /\ toClient[c] # <<>>
      /\ toClient' = [toClient EXCEPT ![c] = Tail(@)]
  BY DEF Receive, history
<1>3. /\ Mail(c)' /\ msg \in Replies(c) /\ msg # Message("Upgraded")
      /\ msg = Message("Close") => "closed" \in trouble[c]
  BY <1>1, <1>2, MailTaken
<1>4. at[c] # 0 /\ task[c] \in {"loop", "ended"}
  BY <1>1, <1>2, Parts, PulleyFacts DEF Life
<1>5. CASE msg.kind = "Chain"
  <2>1. Return(c, Ok(msg.target, msg.epoch))
    BY <1>5 DEF Receive, Deser
  <2>2. opts[c].target \in Arch /\ msg = ChainMsg(opts[c].target, at[c])
    BY <1>3, <1>5 DEF Replies, Answer, Message, ChainMsg
  <2>3. Ok(msg.target, msg.epoch) = Ok(opts[c].target, at[c])
    BY <2>2 DEF ChainMsg
  <2>4. GenerateCrps(started[at[c]]) => crps[c] = NewRandom(at[c])
    BY <1>1, <1>2, <1>4, Parts, PulleyFacts DEF Trust, GenerateCrps, IsTlsUsed
  <2>5. QED
    BY <1>1, <1>2, <1>3, <1>4, <2>1, <2>2, <2>3, <2>4, ReturnKeeps
<1>6. CASE msg.kind = "RequestChainError"
  <2>1. Return(c, Err("ServerError"))
    BY <1>6 DEF Receive, Deser
  <2>2. opts[c].target \notin Arch
    BY <1>3, <1>6 DEF Replies, Answer, Message, ChainMsg
  <2>3. "ServerError" \in Errors /\ Excuse(c, "ServerError")'
    BY <1>1, <2>2, PulleyFacts DEF Excuse, Errors
  <2>4. QED
    BY <1>1, <1>2, <1>3, <2>1, <2>3, ReturnKeeps
<1>7. CASE msg.kind \notin {"Chain", "RequestChainError"} /\ Deser(msg) = "error"
  <2>1. Return(c, Err("Deserialize"))
    BY <1>7 DEF Receive
  <2>2. msg \in {Message("Ping"), Message("Close")}
    BY <1>3, <1>7 DEF Replies, Answer, Message, ChainMsg
  <2>3. Deser(Message("Ping")) = "none"
    BY DEF Deser, Message
  <2>4. "Deserialize" \in Errors /\ Excuse(c, "Deserialize")'
    BY <1>2, <1>3, <1>7, <2>2, <2>3 DEF Errors, Excuse
  <2>5. QED
    BY <1>1, <1>2, <1>3, <2>1, <2>4, ReturnKeeps
<1>8. CASE msg.kind \notin {"Chain", "RequestChainError"} /\ Deser(msg) # "error"
  <2>1. UNCHANGED <<pc, result, down>>
    BY <1>8 DEF Receive
  <2>2. Sent(c)' = Sent(c) /\ ModeKept(c)
    BY <1>1, <1>2, <2>1, PulleyFacts DEF Sent, ModeKept
  <2>3. Life(c)'
    BY <1>1, <1>2, <1>4, <2>1, <2>2, Parts, PulleyFacts DEF Life
  <2>4. Talk(c)' /\ InOrder(c)'
    BY <1>1, <1>2, <2>1, <2>2, Parts, PulleyFacts, TalkKept, InOrderKept
  <2>5. Trust(c)' /\ Healthy(c)' /\ Outcome(c)'
    BY <1>1, <1>2, <2>1, <2>2, Parts, PulleyFacts, TrustKept, HealthyKept, OutcomeKept DEF Concerns
  <2>6. QED
    BY <1>3, <2>3, <2>4, <2>5 DEF Inv, PeerInv, PulleyInv
<1>9. QED
  BY <1>5, <1>6, <1>7, <1>8

\* A relay sends a frame that is no answer.
LEMMA StrayKeeps ==
  ASSUME SessionInv, NEW c \in Pulley, Stray(c)
  PROVE  Inv(c)'
<1>1. Concerns(c)
  BY ClientConcerns, Parts DEF Peer
<1>2. /\ UNCHANGED <<client, server>> /\ UNCHANGED <<task, toServer, down, said>>
      /\ task[c] = "loop"
  BY DEF Stray
<1>3. PICK kind \in {"Ping", "Close"} :
        /\ toClient'[c] = Append(toClient[c], Message(kind))
        /\ trouble[c] \subseteq trouble'[c]
        /\ kind = "Close" => "closed" \in trouble'[c]
  BY <1>1, Parts, PulleyFacts DEF Stray, Note, Shapes
<1>4. c \in Peer /\ Mail(c)
  BY <1>1, Parts, PulleyFacts
<1>5. Life(c)'
  BY <1>2, <1>4, Parts, ClientStands DEF Life
<1>6. Talk(c)' /\ InOrder(c)'
  BY <1>2, <1>4, SilentStep
<1>7. Trust(c)'
  BY <1>1, <1>2, Parts, PulleyFacts, ClientStands DEF Trust, Stores
<1>8. Healthy(c)' /\ Outcome(c)'
  BY <1>2, <1>3, <1>4, Parts, ClientStands, HealthyKept, OutcomeKept
<1>9. Mail(c)'
  <2>1. Message(kind) \in Replies(c) /\ Message(kind) # Message("Upgraded")
        /\ (Message(kind) = Message("Close") => kind = "Close")
    BY DEF Replies, Message
  <2>2. Replies(c)' = Replies(c) /\ pc'[c] = pc[c]
    BY <1>1, <1>2, PulleyFacts, ClientStands DEF Replies
  <2>3. /\ toClient'[c] \in Seq(Replies(c)) /\ Len(toClient[c]) \in Nat
        /\ Len(toClient'[c]) = Len(toClient[c]) + 1
        /\ \A i \in 1..Len(toClient[c]) : toClient'[c][i] = toClient[c][i]
        /\ toClient'[c][Len(toClient[c]) + 1] = Message(kind)
    BY <1>3, <1>4, <2>1, AppendFacts DEF Mail
  <2>4. ASSUME NEW i \in 1..Len(toClient'[c])
        PROVE  /\ toClient'[c][i] = Message("Upgraded") => i = 1 /\ pc[c] \in {"upgrade", "done"}
               /\ toClient'[c][i] = Message("Close") => "closed" \in trouble'[c]
    <3>1. CASE i \in 1..Len(toClient[c])
      BY <1>3, <1>4, <2>3, <3>1 DEF Mail
    <3>2. CASE i = Len(toClient[c]) + 1
      BY <1>3, <2>1, <2>3, <3>2
    <3>3. QED
      BY <2>3, <3>1, <3>2
  <2>5. QED
    BY <2>2, <2>3, <2>4 DEF Mail
<1>10. QED
  BY <1>5, <1>6, <1>7, <1>8, <1>9 DEF Inv, PeerInv, PulleyInv

\* A guest does as it likes; pulleys are not affected.
LEMMA GuestKeeps ==
  ASSUME SessionInv, NEW g \in Guest, GuestDial(g) \/ GuestHello(g) \/ GuestSpeak(g)
  PROVE  Inv(g)'
<1>1. g \in Peer /\ g \notin Pulley
  BY SessionAssumption DEF Peer
<1>2. Concerns(g)
  BY <1>1, GuestConcerns, Parts
<1>3. Still /\ srv' = srv /\ started' = started /\ Epoch' = Epoch /\ Shapes'
  BY <1>2 DEF Concerns, server, Epoch
<1>4. g \in DOMAIN spoken /\ Epoch \in Nat
  BY <1>1, Parts DEF Shapes, ServerInv, Epoch
<1>5. CASE GuestDial(g)
  <2>1. /\ pc[g] = "dial" /\ srv # "off" /\ pc'[g] = "quiet" /\ at'[g] = Epoch /\ task'[g] = "backlog"
        /\ UNCHANGED <<toServer, toClient, down, said, spoken>>
    BY <1>1, <1>5, Parts DEF GuestDial, history
  <2>2. /\ task[g] = "none" /\ toClient[g] = <<>> /\ toServer[g] = <<>> /\ said[g] = <<>>
        /\ Sent(g) = 0 /\ g \notin down /\ Epoch # 0
    BY <1>1, <2>1, Parts DEF Life, ServerInv
  <2>3. Sent(g)' = 0
    BY <1>1, <2>1, <2>2 DEF Sent
  <2>4. Life(g)'
    BY <1>3, <1>4, <2>1, <2>2 DEF Life
  <2>5. Talk(g)' /\ InOrder(g)'
    BY <1>1, <1>3, <2>1, <2>2, <2>3, FreshTalk
  <2>6. QED
    BY <1>1, <2>4, <2>5 DEF Inv, PeerInv
<1>6. CASE GuestHello(g)
  <2>1. /\ pc[g] = "quiet" /\ pc'[g] = "upgrade"
        /\ UNCHANGED <<at, task, toServer, toClient, down, said, spoken>>
    BY <1>1, <1>6, Parts DEF GuestHello, net, history
  <2>2. Sent(g)' = Sent(g)
    BY <2>1 DEF Sent
  <2>3. Life(g)'
    BY <1>1, <1>3, <2>1, <2>2, Parts DEF Life
  <2>4. Talk(g)' /\ InOrder(g)'
    BY <1>1, <1>3, <2>1, <2>2, Parts, TalkKept, InOrderKept
  <2>5. QED
    BY <1>1, <2>3, <2>4 DEF Inv, PeerInv
<1>7. CASE GuestSpeak(g)
  <2> DEFINE msg == script[g][spoken[g] + 1]
  <2>1. /\ toClient[g] # <<>> /\ g \notin down /\ spoken[g] < Len(script[g])
        /\ spoken'[g] = spoken[g] + 1 /\ toServer'[g] = Append(toServer[g], msg)
        /\ UNCHANGED <<pc, at, task, toClient, down, said>>
    BY <1>1, <1>4, <1>7, Parts DEF GuestSpeak, history
  <2>2. Script(g) = script[g] /\ Script(g)' = Script(g) /\ Sent(g) = spoken[g] /\ Sent(g)' = spoken[g] + 1
    BY <1>1, <1>3, <2>1, ScriptKept DEF Script, Sent
  <2>3. Len(Script(g)) \in Nat /\ Sent(g) \in 0..Len(Script(g)) /\ Len(toServer[g]) <= Sent(g)
    BY <1>1, <2>1, Parts, ScriptFacts DEF Talk
  <2>4. Sent(g) + 1 \in 1..Len(Script(g)) /\ msg = Script(g)[Sent(g) + 1] /\ msg \in Words(g)
    BY <2>1, <2>2, <2>3 DEF Words
  <2>5. /\ toServer'[g] \in Seq(Words(g)) /\ Len(toServer[g]) \in Nat
        /\ Len(toServer'[g]) = Len(toServer[g]) + 1
        /\ \A i \in 1..Len(toServer[g]) : toServer'[g][i] = toServer[g][i]
        /\ toServer'[g][Len(toServer[g]) + 1] = msg
    BY <1>1, <2>1, <2>4, Parts, AppendFacts DEF Talk
  <2>6. Handled(g)' = Handled(g) /\ Handled(g) + (Len(toServer[g]) + 1) = Sent(g) + 1
    <3>1. Handled(g)' = Sent(g)' - Len(toServer'[g]) /\ Handled(g) = Sent(g) - Len(toServer[g])
      BY DEF Handled
    <3>2. QED
      BY <2>2, <2>3, <2>5, <3>1
  <2>7. \A i \in 1..Len(toServer'[g]) : toServer'[g][i] = Script(g)[Handled(g) + i]
    <3> SUFFICES ASSUME NEW i \in 1..(Len(toServer[g]) + 1)
                 PROVE  toServer'[g][i] = Script(g)[Handled(g) + i]
      BY <2>5
    <3>1. CASE i \in 1..Len(toServer[g])
      BY <1>1, <2>1, <2>5, <3>1, Parts DEF Talk
    <3>2. CASE i = Len(toServer[g]) + 1
      BY <2>4, <2>5, <2>6, <3>2
    <3>3. QED
      BY <2>5, <3>1, <3>2
  <2>8. Before(g, Handled(g))' = Before(g, Handled(g)) /\ Words(g)' = Words(g) /\ Answers(g)' = Answers(g)
    BY <1>3, <2>1, <2>6, ScriptKept DEF Before
  <2>9. Sent(g)' \in 0..Len(Script(g)) /\ Len(toServer'[g]) <= Sent(g)'
    BY <2>2, <2>3, <2>4, <2>5
  <2>10. Talk(g)'
    BY <1>1, <2>1, <2>2, <2>5, <2>6, <2>7, <2>8, <2>9, Parts DEF Talk
  <2>11. InOrder(g)'
    BY <1>1, <1>3, <2>1, Parts, InOrderKept
  <2>12. task[g] \in {"loop", "ended"}
    BY <1>1, <2>1, Parts DEF Life
  <2>13. Life(g)'
    BY <1>1, <1>3, <2>1, <2>12, Parts DEF Life
  <2>14. QED
    BY <1>1, <2>10, <2>11, <2>13 DEF Inv, PeerInv
<1>8. QED
  BY <1>5, <1>6, <1>7
-----------------------------------------------------------------------------
(***************************************************************************)
(* The steps of chainsmith's main.                                         *)
(***************************************************************************)

\* main may bind its socket, write its store, or end: what it says to no one.
LEMMA MainStep ==
  ASSUME SessionInv, UNCHANGED <<client, toServer, toClient, said>>, ServerInv',
         NEW c \in Peer, Life(c)', ModeKept(c), task'[c] \in {task[c], "ended"},
         c \in down' \/ c \notin down,
         c \in Pulley => trouble[c] \subseteq trouble'[c] /\ Healthy(c)'
  PROVE  Inv(c)'
<1>1. /\ Still /\ at'[c] = at[c] /\ Sent(c)' = Sent(c) /\ pc'[c] = pc[c] /\ crps'[c] = crps[c]
      /\ result'[c] = result[c]
  BY DEF client, Still, Sent
<1>2. Talk(c)' /\ InOrder(c)'
  BY <1>1, Parts, TalkKept, InOrderKept
<1>3. c \in Pulley => Trust(c)' /\ Mail(c)' /\ Outcome(c)'
  BY <1>1, Parts, TrustKept, MailKept, OutcomeKept
<1>4. QED
  BY <1>2, <1>3 DEF Inv, PeerInv, PulleyInv

\* chainsmith starts again, in any mode.
LEMMA BindKeeps ==
  ASSUME SessionInv, NEW mode \in Modes, Bind(mode)
  PROVE  SessionInv'
<1>1. /\ srv = "off" /\ Len(started) < MaxStarts /\ started' = Append(started, mode)
      /\ srv' = IF GenerateCrps(mode) THEN "store" ELSE "serve"
      /\ file' = file /\ UNCHANGED <<client, net, history>>
  BY DEF Bind
<1>2. /\ UNCHANGED <<client, task, toServer, toClient, down, said, trouble>>
      /\ pc' = pc /\ at' = at /\ Still /\ crps' = crps /\ result' = result /\ spoken' = spoken
  BY <1>1 DEF net, history, client, Still
<1>3. Shapes /\ ServerInv
  BY DEF SessionInv
<1>4. /\ Epoch \in Nat /\ Epoch' = Epoch + 1 /\ started' \in Seq(Modes) /\ Mode' = mode
      /\ \A i \in 1..Epoch : started'[i] = started[i]
  BY <1>1, <1>3, AppendFacts DEF ServerInv, Epoch, Mode
<1>5. Shapes'
  BY <1>2, <1>3 DEF Shapes, Still
<1>6. ServerInv'
  <2>1. Epoch' <= MaxStarts /\ Epoch' >= 1
    BY <1>1, <1>4, SessionAssumption DEF Epoch
  <2>2. file' \in {NoFile, PartFile} \union {StoreFile(NewRandom(e)) : e \in 1..Epoch'}
    BY <1>1, <1>3, <1>4 DEF ServerInv
  <2>3. srv' \in {"store", "serve"} /\ ~(srv' = "serve" /\ GenerateCrps(mode))
    BY <1>1
  <2>4. QED
    BY <1>4, <2>1, <2>2, <2>3 DEF ServerInv
<1>7. ASSUME NEW c \in Peer PROVE Inv(c)'
  <2>1. Life(c)'
    <3>1. Sent(c)' = Sent(c)
      BY <1>2 DEF Sent
    <3>2. QED
      BY <1>1, <1>2, <1>4, <3>1, Parts DEF Life
  <2>2. ModeKept(c)
    BY <1>2, <1>4, Parts DEF Life, ModeKept
  <2>3. ASSUME c \in Pulley PROVE Healthy(c)'
    <3>1. pc[c] = "dial" => "early" \in trouble[c]
      BY <1>1, <2>3, Parts DEF Healthy
    <3>2. (task[c] # "none" => at[c] # 0) /\ (c \in down => task[c] # "none")
      BY Parts DEF Life
    <3>3. QED
      BY <1>2, <2>2, <2>3, <3>1, <3>2, Parts, SchemeKept DEF Healthy
  <2>4. QED
    BY <1>2, <1>6, <2>1, <2>2, <2>3, MainStep
<1>8. Pulley \subseteq Peer
  BY DEF Peer
<1>9. QED
  BY <1>5, <1>6, <1>7, <1>8 DEF SessionInv, Inv

\* chainsmith opens its store, or has written it.
LEMMA StoreKeeps ==
  ASSUME SessionInv, OpenStore \/ (WriteStore /\ ~GenCertPanics(OwnStore))
  PROVE  SessionInv'
<1>1. /\ started' = started /\ UNCHANGED <<client, task, toServer, toClient, down, said, trouble>>
      /\ \/ srv = "store" /\ srv' = "write" /\ file' = PartFile
         \/ srv = "write" /\ srv' = "serve" /\ file' = StoreFile(OwnStore) /\ ~GenCertPanics(OwnStore)
  BY DEF OpenStore, WriteStore, net, history
<1>2. pc' = pc /\ at' = at /\ Still /\ crps' = crps /\ result' = result /\ spoken' = spoken
  BY <1>1 DEF client, Still
<1>3. Shapes /\ ServerInv /\ Epoch' = Epoch /\ Mode' = Mode /\ OwnStore' = OwnStore /\ Epoch \in Nat
  BY <1>1 DEF SessionInv, ServerInv, Epoch, Mode, OwnStore
<1>4. Shapes'
  BY <1>1, <1>2, <1>3 DEF Shapes, Still
<1>5. ServerInv'
  <2>1. Epoch >= 1
    BY <1>1, <1>3 DEF ServerInv
  <2>2. StoreFile(OwnStore) \in {StoreFile(NewRandom(e)) : e \in 1..Epoch}
    BY <1>3, <2>1 DEF OwnStore
  <2>3. file' \in {NoFile, PartFile} \union {StoreFile(NewRandom(e)) : e \in 1..Epoch}
    BY <1>1, <2>2
  <2>4. QED
    BY <1>1, <1>3, <2>1, <2>3 DEF ServerInv
<1>6. ASSUME NEW c \in Peer PROVE Inv(c)'
  <2>1. Life(c)'
    <3>1. Sent(c)' = Sent(c)
      BY <1>2 DEF Sent
    <3>2. QED
      BY <1>1, <1>2, <1>3, <3>1, Parts DEF Life
  <2>2. ModeKept(c)
    BY <1>1, <1>2 DEF ModeKept
  <2>3. ASSUME c \in Pulley PROVE Healthy(c)'
    <3>1. pc[c] = "dial" => "early" \in trouble[c]
      BY <1>1, <2>3, Parts DEF Healthy
    <3>2. (task[c] # "none" => at[c] # 0) /\ (c \in down => task[c] # "none")
      BY Parts DEF Life
    <3>3. QED
      BY <1>1, <1>2, <2>2, <2>3, <3>1, <3>2, Parts, SchemeKept DEF Healthy
  <2>4. QED
    BY <1>1, <1>5, <2>1, <2>2, <2>3, MainStep
<1>7. Pulley \subseteq Peer
  BY DEF Peer
<1>8. QED
  BY <1>4, <1>5, <1>6, <1>7 DEF SessionInv, Inv

\* chainsmith ends.
LEMMA GoneKeeps ==
  ASSUME SessionInv, Exit \/ (WriteStore /\ GenCertPanics(OwnStore))
  PROVE  SessionInv'
<1>1. /\ started' = started /\ UNCHANGED <<client, toServer, toClient, said>> /\ srv # "off" /\ Gone
      /\ file' = file \/ (srv = "write" /\ file' = StoreFile(OwnStore))
  BY DEF Exit, WriteStore
<1>2. /\ pc' = pc /\ at' = at /\ Still /\ crps' = crps /\ result' = result /\ spoken' = spoken
      /\ toServer' = toServer /\ toClient' = toClient /\ said' = said
  BY <1>1 DEF client, Still
<1>3. Shapes /\ ServerInv /\ Epoch' = Epoch /\ Epoch \in Nat
  BY <1>1 DEF SessionInv, ServerInv, Epoch
<1>4. Shapes'
  <2>1. \A c : Loses(c) \subseteq Causes
    BY DEF Loses, Causes
  <2>2. trouble' \in [Pulley -> SUBSET Causes]
    BY <1>1, <1>3, <2>1 DEF Shapes, Gone
  <2>3. QED
    BY <1>1, <1>2, <1>3, <2>2 DEF Shapes, Still, Gone, Connected
<1>5. ServerInv'
  <2>1. Epoch >= 1
    BY <1>1, <1>3 DEF ServerInv
  <2>2. StoreFile(OwnStore) \in {StoreFile(NewRandom(e)) : e \in 1..Epoch}
    BY <1>3, <2>1 DEF OwnStore
  <2>3. file' \in {NoFile, PartFile} \union {StoreFile(NewRandom(e)) : e \in 1..Epoch}
    BY <1>1, <1>3, <2>2 DEF ServerInv
  <2>4. QED
    BY <1>1, <1>3, <2>1, <2>3 DEF ServerInv, Gone
<1>6. ASSUME NEW c \in Peer PROVE Inv(c)'
  <2>1. /\ srv' = "off"
        /\ c \in Pulley => trouble'[c] = trouble[c] \union Loses(c)
        /\ \/ task'[c] = "ended" /\ c \in Connected /\ c \in down'
           \/ task'[c] = task[c] /\ c \notin Connected /\ (c \in down' <=> c \in down)
    BY <1>1 DEF Gone
  <2>2. Life(c)'
    <3>1. Sent(c)' = Sent(c)
      BY <1>2 DEF Sent
    <3>2. QED
      BY <1>2, <1>3, <2>1, <3>1, Parts DEF Life, Connected
  <2>3. ModeKept(c)
    BY <1>1, <1>2 DEF ModeKept
  <2>4. ASSUME c \in Pulley PROVE Healthy(c)'
    <3>1. trouble'[c] = trouble[c] \union Loses(c)
      BY <2>1, <2>4
    <3>2. pc[c] = "dial" => "early" \in trouble'[c]
      BY <3>1 DEF Loses
    <3>3. c \in Connected /\ pc[c] # "done" => "lost" \in trouble'[c]
      <4>1. c \in Connected => pc[c] # "dial"
        BY Parts DEF Life, Connected
      <4>2. QED
        BY <3>1, <4>1 DEF Loses
    <3>4. (task[c] # "none" => at[c] # 0) /\ (c \in down => task[c] # "none")
      BY Parts DEF Life
    <3>5. task'[c] # "none" => task[c] # "none"
      BY <2>1 DEF Connected
    <3>6. QED
      BY <1>2, <2>1, <2>3, <2>4, <3>1, <3>2, <3>3, <3>4, <3>5, Parts, SchemeKept DEF Healthy
  <2>5. QED
    BY <1>1, <1>5, <2>1, <2>2, <2>3, <2>4, MainStep
<1>7. Pulley \subseteq Peer
  BY DEF Peer
<1>8. QED
  BY <1>4, <1>5, <1>6, <1>7 DEF SessionInv, Inv
-----------------------------------------------------------------------------
\* Before chainsmith has started.
LEMMA InitSessionInv ==
  ASSUME SessionInit
  PROVE  SessionInv
<1>1. Shapes
  BY DEF SessionInit, Shapes
<1>2. ServerInv
  BY SessionAssumption DEF SessionInit, ServerInv, Epoch
<1>3. Pulley \subseteq Peer /\ Guest \subseteq Peer /\ Epoch = 0
  BY DEF Peer, SessionInit, Epoch
<1>4. ASSUME NEW c \in Peer PROVE PeerInv(c)
  <2>1. Sent(c) = 0 /\ toServer[c] = <<>> /\ said[c] = <<>> /\ toClient[c] = <<>>
    BY DEF SessionInit, Sent
  <2>2. Life(c)
    BY <1>3, <2>1 DEF SessionInit, Life
  <2>3. Len(toServer[c]) = 0 /\ Len(said[c]) = 0 /\ Len(Script(c)) \in Nat
    BY <1>1, <2>1, ScriptFacts
  <2>4. Handled(c) = 0
    <3>1. Handled(c) = Sent(c) - Len(toServer[c])
      BY DEF Handled
    <3>2. QED
      BY <2>1, <2>3, <3>1
  <2>5. Cardinality(Before(c, Handled(c))) = 0
    <3>1. Before(c, 0) = {}
      BY DEF Before, Requests
    <3>2. QED
      BY <2>4, <3>1, FS_EmptySet
  <2>6. Talk(c) /\ InOrder(c)
    BY <2>1, <2>3, <2>4, <2>5 DEF Talk, InOrder
  <2>7. QED
    BY <2>2, <2>6 DEF PeerInv
<1>5. ASSUME NEW c \in Pulley PROVE PulleyInv(c)
  <2>1. /\ pc[c] = "read" /\ task[c] = "none" /\ toClient[c] = <<>> /\ result[c] = Pending
        /\ crps[c] = NewRandom(0) /\ c \notin down
    BY <1>3 DEF SessionInit
  <2>2. Trust(c)
    BY <2>1, SessionAssumption DEF Trust, Stores, NewRandom
  <2>3. Mail(c) /\ Healthy(c) /\ Outcome(c)
    BY <2>1 DEF Mail, Healthy, Outcome
  <2>4. QED
    BY <2>2, <2>3 DEF PulleyInv
<1>6. QED
  BY <1>1, <1>2, <1>4, <1>5 DEF SessionInv

\* Nothing happens.
LEMMA StutterKeeps ==
  ASSUME SessionInv, UNCHANGED sessionVars
  PROVE  SessionInv'
<1>1. UNCHANGED <<server, client, net, history>>
  BY DEF sessionVars
<1>2. /\ UNCHANGED <<opts, script, pc, crps, at, result, spoken>>
      /\ UNCHANGED <<task, toServer, toClient, down, said, trouble>>
  BY <1>1 DEF client, net, history
<1>3. Shapes /\ ServerInv /\ Pulley \subseteq Peer
  BY DEF SessionInv, Peer
<1>4. Still /\ UNCHANGED server /\ \A c \in Peer : Untouched(c)
  BY <1>1, <1>2 DEF Still, Untouched
<1>5. Shapes'
  BY <1>2, <1>3 DEF Shapes
<1>6. ServerInv'
  BY <1>3, <1>4 DEF ServerInv, server, Epoch, Mode, OwnStore
<1>7. ASSUME NEW c \in Peer PROVE PeerInv(c)' /\ (c \in Pulley => PulleyInv(c)')
  BY <1>3, <1>4, <1>7, UntouchedKept DEF SessionInv
<1>8. QED
  BY <1>3, <1>5, <1>6, <1>7 DEF SessionInv

\* Every step, of chainsmith, a pulley, a guest or the network.
LEMMA NextKeeps ==
  ASSUME SessionInv, SessionNext
  PROVE  SessionInv'
<1>1. CASE Main \/ Exit
  BY <1>1, BindKeeps, StoreKeeps, GoneKeeps DEF Main
<1>2. ASSUME NEW c \in Peer, Accept(c) \/ Task(c) \/ Break(c) PROVE SessionInv'
  <2>1. Concerns(c)
    BY <1>2, TaskConcerns, Parts
  <2>2. Inv(c)'
    BY <1>2, AcceptKeeps, TlsAcceptKeeps, WsAcceptKeeps, HandleRequestKeeps, HandleOtherKeeps,
       SeeEndKeeps, BreakKeeps DEF Task
  <2>3. QED
    BY <2>1, <2>2, LookAtOne DEF Inv
<1>3. ASSUME NEW c \in Pulley, GetChain(c) \/ Stray(c) PROVE SessionInv'
  <2>1. Concerns(c) /\ c \in Peer
    BY <1>3, ClientConcerns DEF SessionInv, Peer
  <2>2. Inv(c)'
    BY <1>3, ReadStoreKeeps, DialKeeps, CheckServerKeeps, UpgradeKeeps, FailKeeps, AskKeeps,
       ReceiveKeeps, StrayKeeps DEF GetChain
  <2>3. QED
    BY <2>1, <2>2, LookAtOne DEF Inv
<1>4. ASSUME NEW g \in Guest, GuestDial(g) \/ GuestHello(g) \/ GuestSpeak(g) PROVE SessionInv'
  <2>1. Concerns(g) /\ g \in Peer
    BY <1>4, GuestConcerns DEF SessionInv, Peer
  <2>2. QED
    BY <1>4, <2>1, GuestKeeps, LookAtOne DEF Inv
<1>5. QED
  BY <1>1, <1>2, <1>3, <1>4 DEF SessionNext

\* The invariant holds throughout.
THEOREM SessionInvariant == SessionSpec => []SessionInv
<1>1. SessionInit => SessionInv
  BY InitSessionInv
<1>2. SessionInv /\ [SessionNext]_sessionVars => SessionInv'
  BY NextKeeps, StutterKeeps
<1>3. QED
  BY <1>1, <1>2, PTL DEF SessionSpec
-----------------------------------------------------------------------------
\* The state of a session has its types, and a pulley that goes on after
\* reading testcrps.post has a store somebody made.
THEOREM SessionTypes == SessionSpec => []SessionTypeOK
<1>1. ASSUME SessionInv PROVE SessionTypeOK
  <2>1. Shapes /\ ServerInv /\ Pulley \subseteq Peer
    BY <1>1 DEF SessionInv, Peer
  <2>2. file.state \in {"absent", "partial", "whole"} /\ file.crps \in Stores
    <3>1. CASE file \in {NoFile, PartFile}
      BY <3>1, SessionAssumption DEF NoFile, PartFile, NewRandom, Stores
    <3>2. ASSUME NEW e \in 1..Epoch, file = StoreFile(NewRandom(e))
          PROVE  file.state = "whole" /\ file.crps \in Stores
      <4>1. file.state = "whole" /\ file.crps = NewRandom(e)
        BY <3>2 DEF StoreFile
      <4>2. e \in 0..MaxStarts
        BY <2>1, SessionAssumption DEF ServerInv, Epoch
      <4>3. QED
        BY <4>1, <4>2 DEF NewRandom, Stores
    <3>3. QED
      BY <2>1, <3>1, <3>2 DEF ServerInv
  <2>3. at \in [Peer -> 0..Len(started)]
    <3>1. at = [c \in Peer |-> at[c]]
      BY <2>1 DEF Shapes
    <3>2. \A c \in Peer : at[c] \in 0..Len(started)
      BY <1>1, Parts DEF Life, Epoch
    <3>3. QED
      BY <3>1, <3>2
  <2>4. crps \in [Pulley -> Stores]
    <3>1. crps = [c \in Pulley |-> crps[c]]
      BY <2>1 DEF Shapes
    <3>2. \A c \in Pulley : crps[c] \in Stores
      BY <1>1, <2>1, Parts DEF Trust
    <3>3. QED
      BY <3>1, <3>2
  <2>5. \A c \in Pulley : pc[c] \notin {"read", "done"} => crps[c].origin # 0
    BY <1>1, <2>1, Parts DEF Trust
  <2>6. QED
    BY <2>1, <2>2, <2>3, <2>4, <2>5 DEF SessionTypeOK, Shapes, ServerInv
<1>2. QED
  BY <1>1, SessionInvariant, PTL

\* The chain a pulley gets is the one for its target, from the chainsmith it
\* connected to.
THEOREM AlwaysRightChain == SessionSpec => []RightChain
<1>1. ASSUME SessionInv, NEW c \in Pulley, Got(c)
      PROVE  result[c] = Ok(opts[c].target, at[c]) /\ opts[c].target \in Arch
  BY <1>1, Parts DEF Outcome, Got, Pending, Err, Errors, Peer
<1>2. SessionInv => RightChain
  BY <1>1 DEF RightChain
<1>3. QED
  BY <1>2, SessionInvariant, PTL

\* In puf-tls mode the two sides of a hand-over have the same store.
THEOREM StoresAlwaysAgree == SessionSpec => []StoresAgree
<1>1. ASSUME SessionInv, NEW c \in Pulley, Got(c), GenerateCrps(started[at[c]])
      PROVE  crps[c] = NewRandom(at[c])
  BY <1>1, Parts DEF Outcome, Got, Pending, Err, Errors, Peer
<1>2. SessionInv => StoresAgree
  BY <1>1 DEF StoresAgree
<1>3. QED
  BY <1>2, SessionInvariant, PTL

\* get_chain fails for one of the causes FailsForCause lists.
THEOREM AlwaysFailsForCause == SessionSpec => []FailsForCause
<1>1. ASSUME SessionInv, NEW c \in Pulley, result[c].how \in Errors
      PROVE  Excuse(c, result[c].how)
  <2>1. Outcome(c)
    BY <1>1, Parts DEF Peer
  <2>2. Pending.how = "none" /\ (\A t, e : Ok(t, e).how = "chain") /\ \A k : Err(k).how = k
    BY DEF Pending, Ok, Err
  <2>3. "none" \notin Errors /\ "chain" \notin Errors
    BY DEF Errors
  <2>4. QED
    BY <1>1, <2>1, <2>2, <2>3 DEF Outcome
<1>2. SessionInv => FailsForCause
  BY <1>1 DEF FailsForCause, Excuse, Errors
<1>3. QED
  BY <1>2, SessionInvariant, PTL

\* The answers of a task are those to the requests of its client, in order.
THEOREM AlwaysInOrder == SessionSpec => []AnswersInOrder
<1>1. ASSUME SessionInv PROVE AnswersInOrder
  <2>1. ASSUME NEW c \in Peer, NEW j \in 1..Len(said[c])
        PROVE  \E i \in Requests(Script(c)) :
                 /\ Cardinality({l \in Requests(Script(c)) : l <= i}) = j
                 /\ said[c][j] = Answer(Script(c)[i].target, at[c])
    BY <1>1, <2>1, Parts DEF InOrder, Before
  <2>2. QED
    BY <2>1 DEF AnswersInOrder, Answer
<1>2. QED
  BY <1>1, SessionInvariant, PTL
-----------------------------------------------------------------------------
(***************************************************************************)
(* Session implements Delivery: the safety part.                           *)
(***************************************************************************)
Delivered(c) == IF result[c].how \in Errors THEN Err("failed") ELSE result[c]

\* A step ends get_chain of one pulley at most, which had no result yet.
LEMMA OneResult ==
  ASSUME SessionInv, SessionNext, result' # result
  PROVE  \E c \in Pulley :
           /\ result[c] = Pending
           /\ pc'[c] = "done"
           /\ \A d \in Pulley \ {c} : result'[d] = result[d]
<1>1. PICK c \in Pulley : GetChain(c)
  BY DEF SessionNext, Main, Exit, Bind, OpenStore, WriteStore, Accept, Task, TlsAccept, WsAccept,
         HandleRequest, HandleOther, TakeMessage, SeeEnd, Break, Stray, GuestDial, GuestHello,
         GuestSpeak, client
<1>2. pc[c] # "done" /\ \E value : Return(c, value)
  <2>1. CASE ReadStore(c)
    BY <2>1 DEF ReadStore
  <2>2. CASE Dial(c)
    BY <2>2 DEF Dial
  <2>3. CASE CheckServer(c)
    BY <2>3 DEF CheckServer
  <2>4. CASE Upgrade(c) \/ Ask(c)
    BY <2>4 DEF Upgrade, Ask
  <2>5. CASE FailConnect(c) \/ FailAsk(c) \/ FailReceive(c)
    BY <2>5 DEF FailConnect, FailAsk, FailReceive
  <2>6. CASE Receive(c)
    BY <2>6 DEF Receive
  <2>7. QED
    BY <1>1, <2>1, <2>2, <2>3, <2>4, <2>5, <2>6 DEF GetChain
<1>3. result[c] = Pending
  BY <1>2, Parts DEF Outcome, Peer
<1>4. pc'[c] = "done" /\ \A d \in Pulley \ {c} : result'[d] = result[d]
  BY <1>2, Parts DEF Return, SessionInv, Shapes, Peer
<1>5. QED
  BY <1>3, <1>4

\* Every step is one of Delivery, or leaves its state unchanged.
LEMMA NextDelivers ==
  ASSUME SessionInv, [SessionNext]_sessionVars
  PROVE  [Chains!DeliveryNext]_(Chains!deliveryVars)
<1>1. SessionInv'
  BY NextKeeps, StutterKeeps
<1>2. opts' = opts
  <2>1. CASE UNCHANGED sessionVars
    BY <2>1 DEF sessionVars, client
  <2>2. CASE SessionNext
    BY <2>2 DEF SessionNext, Main, Exit, Bind, OpenStore, WriteStore, Accept, Task, TlsAccept, WsAccept,
         HandleRequest, HandleOther, TakeMessage, SeeEnd, Break, Stray, GuestDial, GuestHello,
         GuestSpeak, GetChain, ReadStore, Dial, CheckServer, Upgrade, FailConnect, Ask, FailAsk,
         Receive, FailReceive, client
  <2>3. QED
    BY <2>1, <2>2
<1>3. CASE result' = result /\ started' = started
  BY <1>2, <1>3 DEF Chains!deliveryVars
<1>4. CASE started' # started
  <2>1. PICK mode \in Modes : Bind(mode)
    BY <1>4 DEF SessionNext, Main, Exit, OpenStore, WriteStore, Accept, Task, TlsAccept, WsAccept,
         HandleRequest, HandleOther, TakeMessage, SeeEnd, Break, Stray, GuestDial, GuestHello,
         GuestSpeak, GetChain, ReadStore, Dial, CheckServer, Upgrade, FailConnect, Ask, FailAsk,
         Receive, FailReceive, server, sessionVars
  <2>2. started' = Append(started, mode) /\ result' = result
    BY <2>1 DEF Bind, client
  <2>3. Len(started') = Len(started) + 1
    BY <2>2, AppendFacts DEF SessionInv, ServerInv
  <2>4. Chains!Start
    BY <1>2, <2>2, <2>3 DEF Chains!Start
  <2>5. QED
    BY <2>4 DEF Chains!DeliveryNext
<1>5. CASE result' # result /\ started' = started
  <2>1. SessionNext
    BY <1>5 DEF sessionVars, client
  <2>2. PICK c \in Pulley : /\ result[c] = Pending /\ pc'[c] = "done"
                            /\ \A d \in Pulley \ {c} : result'[d] = result[d]
    BY <1>5, <2>1, OneResult
  <2>3. Outcome(c)' /\ at'[c] \in 0..Len(started)
    BY <1>1, <1>5 DEF SessionInv, PulleyInv, PeerInv, Life, Epoch, Peer
  <2>4. result'[c] # Pending
    BY <2>2, <2>3 DEF Outcome
  <2>5. Delivered(c) = Pending /\ \A d \in Pulley \ {c} : Delivered(d)' = Delivered(d)
    BY <2>2 DEF Delivered, Pending, Errors
  <2>6. CASE \E kind \in Errors : result'[c] = Err(kind)
    <3>1. Delivered(c)' = Err("failed")
      BY <2>6 DEF Delivered, Err
    <3>2. [d \in Pulley |-> Delivered(d)'] = [[d \in Pulley |-> Delivered(d)] EXCEPT ![c] = Err("failed")]
      BY <2>5, <3>1
    <3>3. Chains!GiveUp(c)
      <4>1. Chains!Open(c)
        BY <2>2 DEF Chains!Open, Pending, Errors
      <4>2. QED
        BY <1>2, <1>5, <3>2, <4>1 DEF Chains!GiveUp, Delivered, Err
    <3>4. QED
      BY <3>3 DEF Chains!DeliveryNext
  <2>7. CASE result'[c] = Ok(opts[c].target, at'[c]) /\ opts[c].target \in Arch /\ at'[c] # 0
    <3>1. Delivered(c)' = Ok(opts[c].target, at'[c])
      BY <2>7 DEF Delivered, Ok, Errors
    <3>2. at'[c] \in 1..Len(started)
      BY <1>1, <2>3, <2>7
    <3>3. [d \in Pulley |-> Delivered(d)'] =
            [[d \in Pulley |-> Delivered(d)] EXCEPT ![c] = Ok(opts[c].target, at'[c])]
      BY <2>5, <3>1
    <3>4. Chains!Deliver(c)
      <4>1. Chains!Open(c)
        BY <2>2 DEF Chains!Open, Pending, Errors
      <4>2. QED
        BY <1>2, <1>5, <2>7, <3>2, <3>3, <4>1 DEF Chains!Deliver, Delivered, Ok
    <3>5. QED
      BY <3>4 DEF Chains!DeliveryNext
  <2>8. QED
    BY <1>2, <2>3, <2>4, <2>6, <2>7 DEF Outcome
<1>6. QED
  BY <1>3, <1>4, <1>5

\* chainsmith and pulley implement what Delivery allows: every pulley gets, at
\* most once, the chain of its target from some start of chainsmith, or fails.
THEOREM ImplementsDeliverySafety == SessionSpec => Chains!DeliverySafety
<1>1. ASSUME SessionInit PROVE Chains!DeliveryInit
  BY <1>1 DEF SessionInit, Chains!DeliveryInit, Pending, Errors
<1>2. SessionInv /\ [SessionNext]_sessionVars => [Chains!DeliveryNext]_(Chains!deliveryVars)
  BY NextDelivers
<1>3. QED
  BY <1>1, <1>2, SessionInvariant, PTL DEF SessionSpec, Chains!DeliverySafety
=============================================================================
