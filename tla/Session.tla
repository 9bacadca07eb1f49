------------------------------- MODULE Session -------------------------------
(***************************************************************************)
(* How a pulley gets its chain.  chainsmith has built a chain for every    *)
(* architecture; it binds its socket, in puf-tls mode writes the challenge *)
(* store to testcrps.post, then accepts connections and gives each a task. *)
(* pulley runs get_chain once: read testcrps.post, connect, ask, wait.     *)
(*                                                                         *)
(* chainsmith may die at any point and be started again, in another mode;  *)
(* the file stays.  A connection may break.  Guests are WebSocket clients  *)
(* that are not pulley: they say what they like, or nothing at all.        *)
(***************************************************************************)
EXTENDS Keys, Sequences, FiniteSets

CONSTANTS
  Pulley,     \* runs of get_chain
  Guest,      \* other clients
  Arch,       \* SUPPORTED_ARCHES
  Opts,       \* what a pulley may be run with: [scheme, name, target]
  Scripts,    \* what a guest may want to say
  Modes,      \* the values of --tls-mode considered
  MaxStarts,  \* bound: how often chainsmith is started
  MaxStray    \* bound: frames a relay adds to one connection

\* What a client may say.  Answers are no words of ClientToServer: to chainsmith
\* they are garbage like any other.
ClientMsg ==
  [kind : {"Ping", "Garbage", "Close"}] \union [kind : {"RequestChain"}, target : STRING]

ASSUME SessionAssumption ==
  /\ Pulley \intersect Guest = {}
  /\ 0 \notin Pulley
  /\ Scripts \subseteq Seq(ClientMsg)
  /\ Modes \subseteq TlsMode
  /\ MaxStarts \in Nat
  /\ MaxStray \in Nat
  /\ \A o \in Opts : o.scheme \in {"ws", "wss"} /\ o.name \in {"localhost", "host", "ip"}

Peer == Pulley \union Guest

VARIABLES
  started,   \* the mode of every start of chainsmith so far
  srv,       \* what main is doing
  file,      \* testcrps.post
  opts,      \* how each pulley was run
  script,    \* what each guest means to say
  pc,        \* where each client is
  crps,      \* the store each pulley uses
  at,        \* the start of chainsmith each client has connected to
  result,    \* what get_chain returned
  task,      \* the task chainsmith runs for each connection
  toServer,  \* messages under way to chainsmith
  toClient,  \* messages under way to the client
  down,      \* connections that are closed or broken
  strays,    \* frames a relay has added
  spoken,    \* how much each guest has said
  said,      \* history: answers each task has sent
  trouble    \* history: what has gone wrong for each pulley (see Causes)

server == <<started, srv, file>>
client == <<opts, script, pc, crps, at, result, spoken>>
net == <<task, toServer, toClient, down, strays>>
history == <<said, trouble>>
sessionVars == <<server, client, net, history>>

Epoch == Len(started)
Mode == started[Epoch]
OwnStore == NewRandom(Epoch)

Message(kind) == [kind |-> kind]
Request(target) == [kind |-> "RequestChain", target |-> target]
ChainMsg(target, epoch) == [kind |-> "Chain", target |-> target, epoch |-> epoch]

NoFile == [state |-> "absent", crps |-> NewRandom(0)]
PartFile == [state |-> "partial", crps |-> NewRandom(0)]
StoreFile(store) == [state |-> "whole", crps |-> store]

Pending == [how |-> "none"]
Err(kind) == [how |-> kind]
Ok(target, epoch) == [how |-> "chain", target |-> target, epoch |-> epoch]

SessionInit ==
  /\ started = <<>>
  /\ srv = "off"
  /\ file = NoFile
  /\ opts \in [Pulley -> Opts]
  /\ script \in [Guest -> Scripts]
  /\ pc = [c \in Peer |-> IF c \in Pulley THEN "read" ELSE "dial"]
  /\ crps = [c \in Pulley |-> NewRandom(0)]
  /\ at = [c \in Peer |-> 0]
  /\ result = [c \in Pulley |-> Pending]
  /\ task = [c \in Peer |-> "none"]
  /\ toServer = [c \in Peer |-> <<>>]
  /\ toClient = [c \in Peer |-> <<>>]
  /\ down = {}
  /\ strays = [c \in Peer |-> 0]
  /\ spoken = [g \in Guest |-> 0]
  /\ said = [c \in Peer |-> <<>>]
  /\ trouble = [c \in Pulley |-> {}]
-----------------------------------------------------------------------------
(***************************************************************************)
(* chainsmith: main after the build.                                       *)
(***************************************************************************)

\* The socket is bound, and the kernel lets clients connect, before the store
\* is written.
Bind(mode) ==
  /\ srv = "off"
  /\ Len(started) < MaxStarts
  /\ started' = Append(started, mode)
  /\ srv' = IF GenerateCrps(mode) THEN "store" ELSE "serve"
  /\ UNCHANGED <<file, client, net, history>>

\* tokio::fs::write empties the file, or creates it, and then fills it.
OpenStore ==
  /\ srv = "store"
  /\ file' = PartFile
  /\ srv' = "write"
  /\ UNCHANGED <<started, client, net, history>>

Connected == {c \in Peer : task[c] \notin {"none", "ended"}}

\* What the end of chainsmith does to a pulley: its connection is lost, or the store
\* it has just read may not be the one of the next chainsmith.
Loses(c) ==
  IF pc[c] = "dial" THEN {"early"}
  ELSE IF pc[c] # "done" /\ c \in Connected THEN {"lost"} ELSE {}

\* chainsmith is gone, and with it every task.
Gone ==
  /\ srv' = "off"
  /\ task' = [c \in Peer |-> IF c \in Connected THEN "ended" ELSE task[c]]
  /\ down' = down \union Connected
  /\ trouble' = [c \in Pulley |-> trouble[c] \union Loses(c)]

\* The store is complete; the certificate is made from it.
WriteStore ==
  /\ srv = "write"
  /\ file' = StoreFile(OwnStore)
  /\ IF GenCertPanics(OwnStore) THEN Gone
     ELSE srv' = "serve" /\ UNCHANGED <<task, down, trouble>>
  /\ UNCHANGED <<started, client, toServer, toClient, strays, said>>

\* chainsmith ends: ctrl+c, a crash, a file that cannot be written, or an error
\* of accept(), which ends main's loop.
Exit ==
  /\ srv # "off"
  /\ Gone
  /\ UNCHANGED <<started, file, client, toServer, toClient, strays, said>>

\* Mutant: the connection is handled in the accept loop, not in a task.
MutAccept(c) ==
  /\ srv = "serve"
  /\ task[c] = "backlog"
  /\ \A d \in Peer : task[d] \in {"none", "backlog", "ended"}
  /\ task' = [task EXCEPT ![c] = IF IsTlsUsed(Mode) THEN "tls" ELSE "ws"]
  /\ UNCHANGED <<server, client, toServer, toClient, down, strays, history>>

\* The accept loop spawns a task for the connection.
Accept(c) ==
  /\ srv = "serve"
  /\ task[c] = "backlog"
  /\ task' = [task EXCEPT ![c] = IF IsTlsUsed(Mode) THEN "tls" ELSE "ws"]
  /\ UNCHANGED <<server, client, toServer, toClient, down, strays, history>>
-----------------------------------------------------------------------------
(***************************************************************************)
(* chainsmith: handle_connection and handle_connection_no_tls.  A failed   *)
(* expectation ends the task, and closes its connection, like a break.     *)
(***************************************************************************)
EndTask(c) ==
  /\ task' = [task EXCEPT ![c] = "ended"]
  /\ down' = down \union {c}

Scheme(c) == IF c \in Pulley THEN opts[c].scheme ELSE "ws"

\* "Failed TLS handshake!": the client does not speak TLS, or its certificate
\* is refused.  Every pulley shows the pre-shared one.
TlsAccept(c) ==
  /\ task[c] = "tls"
  /\ pc[c] = "upgrade"
  /\ IF Scheme(c) = "wss" /\ AcceptsClient(Mode, OwnStore, PreShared)
     THEN task' = [task EXCEPT ![c] = "ws"] /\ UNCHANGED down
     ELSE EndTask(c)
  /\ UNCHANGED <<server, client, toServer, toClient, strays, history>>

\* "Failed WS handshake": the client starts with TLS.  Otherwise the client
\* learns that the connection is upgraded.
WsAccept(c) ==
  /\ task[c] = "ws"
  /\ \/ /\ pc[c] = "upgrade"
        /\ task' = [task EXCEPT ![c] = "loop"]
        /\ toClient' = [toClient EXCEPT ![c] = Append(@, Message("Upgraded"))]
        /\ UNCHANGED down
     \/ /\ pc[c] = "tls"
        /\ EndTask(c)
        /\ UNCHANGED toClient
  /\ UNCHANGED <<server, client, toServer, strays, history>>

\* protocol::deser, by kind of message: what it yields.
Deser(msg) ==
  CASE msg.kind \in {"RequestChain", "Chain", "RequestChainError"} -> "some"
    [] msg.kind = "Ping" -> "none"
    [] OTHER -> "error"

\* Mutant: the chains are filed under each other's target.
MutAnswer(target, epoch) ==
  IF target \in Arch THEN ChainMsg(CHOOSE a \in Arch : a # target, epoch)
  ELSE Message("RequestChainError")

\* The chain prepared for the target, or an error.
Answer(target, epoch) ==
  IF target \in Arch THEN ChainMsg(target, epoch) ELSE Message("RequestChainError")

TakeMessage(c) ==
  /\ task[c] = "loop"
  /\ toServer[c] # <<>>
  /\ toServer' = [toServer EXCEPT ![c] = Tail(@)]
  /\ UNCHANGED <<server, client, strays, trouble>>

\* A request is answered.  On a broken connection the answer is lost, and
\* "Connection died?" may be noticed.
HandleRequest(c) ==
  /\ TakeMessage(c)
  /\ Deser(Head(toServer[c])) = "some"
  /\ LET answer == Answer(Head(toServer[c]).target, Epoch)
     IN  \/ /\ c \notin down
            /\ toClient' = [toClient EXCEPT ![c] = Append(@, answer)]
            /\ said' = [said EXCEPT ![c] = Append(@, answer)]
            /\ UNCHANGED <<task, down>>
         \/ /\ c \in down
            /\ task' \in {task, [task EXCEPT ![c] = "ended"]}
            /\ UNCHANGED <<toClient, said, down>>

\* Mutant: a message that cannot be decoded is skipped.
MutHandleOther(c) ==
  /\ TakeMessage(c)
  /\ Deser(Head(toServer[c])) # "some"
  /\ UNCHANGED <<task, toClient, said, down>>

\* A ping is ignored, anything undecodable ends the session.
HandleOther(c) ==
  /\ TakeMessage(c)
  /\ Deser(Head(toServer[c])) # "some"
  /\ IF Deser(Head(toServer[c])) = "none" THEN UNCHANGED <<task, down>> ELSE EndTask(c)
  /\ UNCHANGED <<toClient, said>>

\* The handshake or the stream reports that the client is gone.
SeeEnd(c) ==
  /\ task[c] \in {"tls", "ws", "loop"}
  /\ c \in down
  /\ EndTask(c)
  /\ UNCHANGED <<server, client, toServer, toClient, strays, history>>

Task(c) ==
  TlsAccept(c) \/ WsAccept(c) \/ HandleRequest(c) \/ HandleOther(c) \/ SeeEnd(c)
-----------------------------------------------------------------------------
(***************************************************************************)
(* pulley: get_chain.                                                      *)
(***************************************************************************)

\* get_chain returns, or panics, and drops its connection.
Return(c, value) ==
  /\ pc' = [pc EXCEPT ![c] = "done"]
  /\ result' = [result EXCEPT ![c] = value]
  /\ down' = IF task[c] = "none" THEN down ELSE down \union {c}

\* Something has gone wrong for c.
Note(c, causes) == [trouble EXCEPT ![c] = @ \union causes]

\* A chainsmith that has a store of its own is serving.
StoreServed == srv = "serve" /\ GenerateCrps(Mode)

\* What may be amiss when a pulley reads testcrps.post: there is a part of a store
\* that no chainsmith now serves with, or no chainsmith is serving.
Amiss ==
  CASE file.state = "partial" /\ ~StoreServed -> {"half"}
    [] file.state # "partial" /\ srv # "serve" -> {"early"}
    [] OTHER -> {}

\* Mutant: a part of a store is taken for a whole.
MutReadStore(c) ==
  /\ pc[c] = "read"
  /\ trouble' = Note(c, Amiss)
  /\ pc' = [pc EXCEPT ![c] = "dial"]
  /\ crps' = [crps EXCEPT ![c] = file.crps]
  /\ UNCHANGED <<server, opts, script, at, result, spoken, net, said>>

\* A store that is there is read whatever the scheme of the URL; unwrap()
\* refuses one that is not complete.
ReadStore(c) ==
  /\ pc[c] = "read"
  /\ trouble' = Note(c, Amiss)
  /\ IF file.state = "partial"
     THEN Return(c, Err("panic")) /\ UNCHANGED crps
     ELSE /\ pc' = [pc EXCEPT ![c] = "dial"]
          /\ crps' = [crps EXCEPT ![c] = IF file.state = "whole" THEN file.crps ELSE NewRandom(c)]
          /\ UNCHANGED <<result, down>>
  /\ UNCHANGED <<server, opts, script, at, spoken, task, toServer, toClient, strays, said>>

\* connect_async_tls_with_config: the TCP connection.
Dial(c) ==
  /\ pc[c] = "dial"
  /\ IF srv = "off"
     THEN Return(c, Err("Connect")) /\ UNCHANGED <<at, task>>
     ELSE /\ pc' = [pc EXCEPT ![c] = IF opts[c].scheme = "wss" THEN "tls" ELSE "upgrade"]
          /\ at' = [at EXCEPT ![c] = Epoch]
          /\ task' = [task EXCEPT ![c] = "backlog"]
          /\ UNCHANGED <<result, down>>
  /\ UNCHANGED <<server, opts, script, crps, spoken, toServer, toClient, strays, history>>

\* The TLS handshake: the server's certificate is checked.
CheckServer(c) ==
  /\ pc[c] = "tls"
  /\ task[c] = "tls"
  /\ c \notin down
  /\ LET verdict == VerifyServerCert(crps[c], OwnCert(Mode, OwnStore), opts[c].name)
     IN  IF verdict = "ok" THEN pc' = [pc EXCEPT ![c] = "upgrade"] /\ UNCHANGED <<result, down>>
         ELSE Return(c, Err(IF verdict = "panic" THEN "panic" ELSE "Connect"))
  /\ UNCHANGED <<server, opts, script, crps, at, spoken, task, toServer, toClient, strays, history>>

\* The WebSocket handshake is over.
Upgrade(c) ==
  /\ pc[c] = "upgrade"
  /\ toClient[c] # <<>>
  /\ toClient' = [toClient EXCEPT ![c] = Tail(@)]
  /\ pc' = [pc EXCEPT ![c] = "ask"]
  /\ UNCHANGED <<server, opts, script, crps, at, result, spoken, task, toServer, down, strays, history>>

\* Either handshake fails.
FailConnect(c) ==
  /\ pc[c] \in {"tls", "upgrade"}
  /\ c \in down
  /\ Return(c, Err("Connect"))
  /\ UNCHANGED <<server, opts, script, crps, at, spoken, task, toServer, toClient, strays, history>>

\* RequestChain(env!("TARGET")).  On a broken connection it is lost.
Ask(c) ==
  /\ pc[c] = "ask"
  /\ pc' = [pc EXCEPT ![c] = "wait"]
  /\ toServer' = IF c \in down THEN toServer
                 ELSE [toServer EXCEPT ![c] = Append(@, Request(opts[c].target))]
  /\ UNCHANGED <<server, opts, script, crps, at, result, spoken, task, toClient, down, strays, history>>

\* SendRequest: the break is noticed at once.
FailAsk(c) ==
  /\ pc[c] = "ask"
  /\ c \in down
  /\ Return(c, Err("SendRequest"))
  /\ UNCHANGED <<server, opts, script, crps, at, spoken, task, toServer, toClient, strays, history>>

\* Mutant: whatever is not a chain or an error ends get_chain.
MutReceive(c) ==
  /\ pc[c] = "wait"
  /\ toClient[c] # <<>>
  /\ toClient' = [toClient EXCEPT ![c] = Tail(@)]
  /\ LET msg == Head(toClient[c])
     IN  CASE msg.kind = "Chain" -> Return(c, Ok(msg.target, msg.epoch))
           [] msg.kind = "RequestChainError" -> Return(c, Err("ServerError"))
           [] OTHER -> Return(c, Err("Deserialize"))
  /\ UNCHANGED <<server, opts, script, crps, at, spoken, task, toServer, strays, history>>

\* One message of get_chain's loop.
Receive(c) ==
  /\ pc[c] = "wait"
  /\ toClient[c] # <<>>
  /\ toClient' = [toClient EXCEPT ![c] = Tail(@)]
  /\ LET msg == Head(toClient[c])
     IN  CASE msg.kind = "Chain" -> Return(c, Ok(msg.target, msg.epoch))
           [] msg.kind = "RequestChainError" -> Return(c, Err("ServerError"))
           [] Deser(msg) = "error" -> Return(c, Err("Deserialize"))
           [] OTHER -> UNCHANGED <<pc, result, down>>
  /\ UNCHANGED <<server, opts, script, crps, at, spoken, task, toServer, strays, history>>

\* WsRecv: the stream ends without a closing handshake, and what was still
\* under way may be lost.
FailReceive(c) ==
  /\ pc[c] = "wait"
  /\ c \in down
  /\ Return(c, Err("WsRecv"))
  /\ UNCHANGED <<server, opts, script, crps, at, spoken, task, toServer, toClient, strays, history>>

GetChain(c) ==
  \/ ReadStore(c) \/ Dial(c) \/ CheckServer(c) \/ Upgrade(c) \/ FailConnect(c)
  \/ Ask(c) \/ FailAsk(c) \/ Receive(c) \/ FailReceive(c)
-----------------------------------------------------------------------------
(***************************************************************************)
(* Guests, and the network.                                                *)
(***************************************************************************)
GuestDial(g) ==
  /\ pc[g] = "dial"
  /\ srv # "off"
  /\ pc' = [pc EXCEPT ![g] = "quiet"]
  /\ at' = [at EXCEPT ![g] = Epoch]
  /\ task' = [task EXCEPT ![g] = "backlog"]
  /\ UNCHANGED <<server, opts, script, crps, result, spoken, toServer, toClient, down, strays, history>>

GuestHello(g) ==
  /\ pc[g] = "quiet"
  /\ pc' = [pc EXCEPT ![g] = "upgrade"]
  /\ UNCHANGED <<server, opts, script, crps, at, result, spoken, net, history>>

GuestSpeak(g) ==
  /\ toClient[g] # <<>>
  /\ g \notin down
  /\ spoken[g] < Len(script[g])
  /\ spoken' = [spoken EXCEPT ![g] = @ + 1]
  /\ toServer' = [toServer EXCEPT ![g] = Append(@, script[g][spoken[g] + 1])]
  /\ UNCHANGED <<server, opts, script, pc, crps, at, result, task, toClient, down, strays, history>>

\* A connection breaks, or a guest leaves.
Break(c) ==
  /\ c \in Connected \ down
  /\ down' = down \union {c}
  /\ trouble' = IF c \in Pulley THEN Note(c, {"lost"}) ELSE trouble
  /\ UNCHANGED <<server, client, task, toServer, toClient, strays, said>>

\* A relay between the two adds a ping of its own, or closes the session.
Stray(c) ==
  /\ task[c] = "loop"
  /\ c \notin down
  /\ strays[c] < MaxStray
  /\ strays' = [strays EXCEPT ![c] = @ + 1]
  /\ \/ /\ toClient' = [toClient EXCEPT ![c] = Append(@, Message("Ping"))]
        /\ UNCHANGED trouble
     \/ /\ toClient' = [toClient EXCEPT ![c] = Append(@, Message("Close"))]
        /\ trouble' = Note(c, {"closed"})
  /\ UNCHANGED <<server, client, task, toServer, down, said>>
-----------------------------------------------------------------------------
Main ==
  \/ \E mode \in Modes : Bind(mode)
  \/ OpenStore \/ WriteStore

SessionNext ==
  \/ Main \/ Exit
  \/ \E c \in Peer : Accept(c) \/ Task(c) \/ Break(c)
  \/ \E c \in Pulley : GetChain(c) \/ Stray(c)
  \/ \E g \in Guest : GuestDial(g) \/ GuestHello(g) \/ GuestSpeak(g)

\* main goes on to serve once it has bound its socket; pending connections are
\* accepted; the runtime runs every task, and every get_chain, that can go on.
\* Nobody has to start chainsmith, and a guest need not say anything.
SessionFairness ==
  /\ WF_sessionVars(OpenStore \/ WriteStore)
  /\ \A c \in Peer : WF_sessionVars(Accept(c)) /\ WF_sessionVars(Task(c))
  /\ \A c \in Pulley : WF_sessionVars(GetChain(c))

SessionSpec == SessionInit /\ [][SessionNext]_sessionVars /\ SessionFairness
-----------------------------------------------------------------------------
Stores == [origin : (0..MaxStarts) \union Pulley, used : SUBSET {CertChallenge}]
Errors == {"Connect", "SendRequest", "WsRecv", "Deserialize", "ServerError", "panic"}

\* What can go wrong for a pulley: it read testcrps.post before chainsmith served, or
\* chainsmith ended before it could connect ("early"); it found a part of a store
\* that no chainsmith serves with ("half"); its connection broke or chainsmith ended
\* ("lost"); a relay closed the session ("closed").
Causes == {"early", "half", "lost", "closed"}

\* The types of the state of a session.  A pulley that goes on after reading
\* testcrps.post has a store somebody made.
SessionTypeOK ==
  /\ started \in Seq(Modes)
  /\ srv \in {"off", "store", "write", "serve"}
  /\ file.state \in {"absent", "partial", "whole"}
  /\ file.crps \in Stores
  /\ pc \in [Peer -> {"read", "dial", "quiet", "tls", "upgrade", "ask", "wait", "done"}]
  /\ crps \in [Pulley -> Stores]
  /\ \A c \in Pulley : pc[c] \notin {"read", "done"} => crps[c].origin # 0
  /\ at \in [Peer -> 0..Len(started)]
  /\ task \in [Peer -> {"none", "backlog", "tls", "ws", "loop", "ended"}]
  /\ down \subseteq Peer
  /\ trouble \in [Pulley -> SUBSET Causes]

Got(c) == result[c].how = "chain"

\* A pulley that gets a chain gets the one built for its own target, by the
\* very chainsmith it connected to, not an earlier one.
RightChain ==
  \A c \in Pulley : Got(c) => result[c] = Ok(opts[c].target, at[c]) /\ opts[c].target \in Arch

\* In puf-tls mode a chain is only handed over between a pulley and a
\* chainsmith with the same challenge store: one that a restart replaced, a
\* store that was never written, or a random one will not do.
StoresAgree ==
  \A c \in Pulley :
    Got(c) /\ GenerateCrps(started[at[c]]) => crps[c] = NewRandom(at[c])

\* The URL does not fit the chainsmith that was met, or the name not its certificate.
WrongUrl(c) ==
  \/ (opts[c].scheme = "wss") # IsTlsUsed(started[at[c]])
  \/ opts[c].scheme = "wss" /\ opts[c].name # "localhost"

\* The store is not the one of the chainsmith that was met, and the pulley read it
\* before that chainsmith was serving.
WrongStore(c) ==
  /\ opts[c].scheme = "wss"
  /\ GenerateCrps(started[at[c]])
  /\ crps[c] # NewRandom(at[c])
  /\ "early" \in trouble[c]

\* Every error of get_chain has a cause of its own, whatever guests, other pulleys
\* and earlier chainsmiths do.  It panics only over a part of a store, and never
\* when it starts while a chainsmith with a store is serving; the verifiers do not
\* reach todo!().  It cannot connect because there is no chainsmith, for its URL,
\* for a store it read too early, or because the connection is lost; once it is
\* connected only a lost connection, a relay that closes it and a target without a
\* chain keep it from its chain.
FailsForCause ==
  \A c \in Pulley :
    /\ result[c].how = "panic" => "half" \in trouble[c]
    /\ result[c].how = "Connect" =>
         at[c] = 0 \/ WrongUrl(c) \/ WrongStore(c) \/ "lost" \in trouble[c]
    /\ result[c].how \in {"SendRequest", "WsRecv"} => "lost" \in trouble[c]
    /\ result[c].how = "Deserialize" => "closed" \in trouble[c]
    /\ result[c].how = "ServerError" => opts[c].target \notin Arch

\* "connecting over `ws://` does not impose this requirement": without TLS a pulley
\* does not depend on testcrps.post.
PlainNeedsNoStore == \A c \in Pulley : opts[c].scheme = "ws" => result[c].how # "panic"

Script(c) == IF c \in Pulley THEN <<Request(opts[c].target)>> ELSE script[c]

\* The requests of a script that a session gets to: those before the first
\* message that cannot be decoded.
Requests(s) ==
  {i \in 1..Len(s) : s[i].kind = "RequestChain" /\ \A l \in 1..i : Deser(s[l]) # "error"}

\* A session answers the requests of its client one by one and in order, each
\* with the chain of its own target, and none after a message that cannot be
\* decoded.
AnswersInOrder ==
  \A c \in Peer : \A j \in 1..Len(said[c]) :
    \E i \in Requests(Script(c)) :
      /\ Cardinality({l \in Requests(Script(c)) : l <= i}) = j
      /\ LET target == Script(c)[i].target
         IN  said[c][j] = IF target \in Arch THEN ChainMsg(target, at[c])
                          ELSE Message("RequestChainError")

\* get_chain comes to an end, whatever becomes of chainsmith, and however many
\* guests keep their connections open without a word.
GetChainEnds == \A c \in Pulley : <>(pc[c] = "done")

\* What all this is for: every pulley gets the chain of its target from some
\* chainsmith, or fails.
Chains == INSTANCE Delivery WITH
  starts <- Len(started),
  target <- [c \in Pulley |-> opts[c].target],
  outcome <- [c \in Pulley |-> IF result[c].how \in Errors THEN Err("failed") ELSE result[c]]

ImplementsDelivery == Chains!DeliverySpec
=============================================================================
