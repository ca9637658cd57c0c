---------------------------- MODULE EngineProofs ----------------------------
(* Proofs about Engine, for any number of clients, connections and events. *)
EXTENDS Engine, SequenceTheorems, TLAPS

(* Type correctness.  TypeOK is not inductive: session_send forgets the     *)
(* snapshot, and todo is within it because nothing is left to drain.        *)

Idle == phase \notin {"sessions", "down", "died"} => todo = {}

Types == TypeOK /\ Idle

\* Killing sessions changes the variables it changes within their types.
LEMMA KillSessionTyped ==
  ASSUME TypeOK, NEW K \in SUBSET Client, KillSession(K)
  PROVE  /\ link' \in [Client -> {"away", "backlog", "up", "hup", "shut"}]
         /\ active' \in SUBSET Client
         /\ terminals' \in SUBSET Client
         /\ up' \in [Client -> Seq(UpEvent)]
  <1>1. << >> \in Seq(UpEvent)
    OBVIOUS
  <1> QED
    BY <1>1 DEF TypeOK, KillSession

\* An event sent to sessions leaves every pipe a sequence of events.
LEMMA SentTyped ==
  ASSUME TypeOK, NEW S, NEW event \in DownEvent
  PROVE  Sent(S, event) \in [Client -> Seq(DownEvent)]
  <1>1. \A c \in Client : Append(down[c], event) \in Seq(DownEvent)
    BY AppendProperties DEF TypeOK
  <1> QED
    BY <1>1 DEF Sent, TypeOK

\* So does the Disconnected that killed sessions receive.
LEMMA DisconnectingTyped ==
  ASSUME TypeOK, NEW K
  PROVE  Disconnecting(K) \in [Client -> Seq(DownEvent)]
  BY SentTyped DEF Disconnecting, DownEvent

\* What a session sends is an event.
LEMMA SendUpTyped ==
  ASSUME TypeOK, NEW c \in Client, NEW event, NEW to \in Client \cup {NoSid},
         event \in {"output", "route", "answer", "global", "remote-disconnect",
                    "set-timeout", "exit"},
         SendUp(c, event, to)
  PROVE  up' \in [Client -> Seq(UpEvent)]
  <1>1. [ev |-> event, to |-> to] \in UpEvent
    BY DEF UpEvent
  <1>2. up[c] \in Seq(UpEvent)
    BY DEF TypeOK
  <1>3. Append(up[c], [ev |-> event, to |-> to]) \in Seq(UpEvent)
    BY <1>1, <1>2, AppendProperties
  <1> QED
    BY <1>3 DEF SendUp, TypeOK

\* What is left when the head is taken from a pipe is a sequence of events.
LEMMA TailTyped ==
  ASSUME NEW T, NEW q \in Seq(T), q # << >>
  PROVE  Head(q) \in T /\ Tail(q) \in Seq(T)
  BY HeadTailProperties

\* The initial state is well typed.
LEMMA TypesInit == Init => Types
  <1> SUFFICES ASSUME Init PROVE Types
    OBVIOUS
  <1>1. << >> \in Seq(UpEvent) /\ << >> \in Seq(DownEvent)
    OBVIOUS
  <1>2. 0 \in 0 .. MaxEvents
    BY EngineAssumption
  <1> QED
    BY <1>1, <1>2 DEF Init, Types, TypeOK, Idle, NothingReady

\* A step of a peer keeps the types.
LEMMA TypesPeer ==
  ASSUME Types, NEW c \in Client, Peer(c)
  PROVE  Types'
  <1> USE DEF Types, TypeOK, Idle, loopVars
  <1>1. CASE Connect(c)
    BY <1>1 DEF Connect
  <1>2. CASE Type(c)
    BY <1>2, EngineAssumption DEF Type
  <1>3. CASE HangUp(c)
    BY <1>3 DEF HangUp
  <1> QED
    BY <1>1, <1>2, <1>3 DEF Peer

\* A step of a connect thread keeps the types.
LEMMA TypesConnectThread ==
  ASSUME Types, NEW c \in Client, ConnectThread(c)
  PROVE  Types'
  <1> USE DEF Types, TypeOK, Idle, loopVars
  <1>1. CASE Negotiated(c)
    BY <1>1 DEF Negotiated
  <1>2. CASE NegotiationFails(c)
    BY <1>2 DEF NegotiationFails
  <1>3. CASE StartProcess(c)
    BY <1>3 DEF StartProcess
  <1>4. CASE RegisterTty(c)
    BY <1>4 DEF RegisterTty
  <1> QED
    BY <1>1, <1>2, <1>3, <1>4 DEF ConnectThread

\* A step of a session's process keeps the types.
LEMMA TypesProcess ==
  ASSUME Types, NEW c \in Client, Process(c)
  PROVE  Types'
  <1>0. TypeOK
    BY DEF Types
  <1>1. CASE SendEvent(c)
    <2>1. up' \in [Client -> Seq(UpEvent)]
      BY <1>0, <1>1, SendUpTyped DEF SendEvent
    <2>2. emitted' \in 0 .. MaxEvents
      BY <1>0, <1>1, EngineAssumption DEF SendEvent, TypeOK
    <2> QED
      BY <1>1, <2>1, <2>2 DEF SendEvent, Types, TypeOK, Idle, loopVars
  <1>2. CASE ReadEvent(c)
    <2>1. << >> \in Seq(DownEvent) /\ Tail(down[c]) \in Seq(DownEvent)
      BY <1>0, <1>2, TailTyped DEF ReadEvent, TypeOK
    <2>2. CASE ReadException(c)
      BY <1>2, <2>1, <2>2 DEF ReadEvent, ReadException, Types, TypeOK, Idle, loopVars
    <2>3. CASE ReadOther(c)
      <3>1. up' \in [Client -> Seq(UpEvent)]
        BY <1>0, <2>3, SendUpTyped DEF ReadOther, TypeOK
      <3> QED
        BY <1>2, <2>1, <2>3, <3>1 DEF ReadEvent, ReadOther, Types, TypeOK, Idle, loopVars
    <2> QED
      BY <1>2, <2>2, <2>3 DEF ReadEvent
  <1>3. CASE EndProcess(c)
    <2>1. up' \in [Client -> Seq(UpEvent)]
      BY <1>0, <1>3, SendUpTyped DEF EndProcess
    <2>2. << >> \in Seq(DownEvent)
      OBVIOUS
    <2> QED
      BY <1>3, <2>1, <2>2 DEF EndProcess, Types, TypeOK, Idle, loopVars
  <1>4. CASE CrashProcess(c)
    <2>1. << >> \in Seq(DownEvent)
      OBVIOUS
    <2> QED
      BY <1>4, <2>1 DEF CrashProcess, Types, TypeOK, Idle, loopVars
  <1>5. CASE PipeEof(c)
    BY <1>5 DEF PipeEof, Types, TypeOK, Idle, loopVars
  <1> QED
    BY <1>1, <1>2, <1>3, <1>4, <1>5 DEF Process

\* A step of session_recv keeps the types.
LEMMA TypesSessionRecv ==
  ASSUME Types, SessionRecv
  PROVE  Types'
  <1>0. TypeOK
    BY DEF Types
  <1>1. PICK c \in todo : \/ Drained(c)
                          \/ RecvEof(c)
                          \/ RecvExit(c)
                          \/ RecvOutput(c)
                          \/ RecvSetTimeout(c)
                          \/ RecvRoute(c)
                          \/ RecvGlobal(c)
                          \/ RecvRemoteDisconnect(c)
    BY DEF SessionRecv
  <1>2. c \in Client
    BY <1>0 DEF TypeOK
  <1>3. todo' \subseteq terms' /\ Idle' /\ phase' \in {"sessions", "send"}
    BY <1>0, <1>1 DEF SessionRecv, TypeOK, Idle, Drained, RecvEof, RecvExit, RecvOutput,
       RecvSetTimeout, RecvRoute, RecvGlobal, RecvRemoteDisconnect, Pass, Abort
  <1>4. /\ link' \in [Client -> {"away", "backlog", "up", "hup", "shut"}]
        /\ active' \in SUBSET Client
        /\ terminals' \in SUBSET Client
        /\ up' \in [Client -> Seq(UpEvent)]
    <2>1. CASE KillSession({c})
      BY <1>0, <1>2, <2>1, KillSessionTyped
    <2>2. CASE Consume(c) /\ up[c] # << >> /\ UNCHANGED <<link, active, terminals>>
      <3>1. Tail(up[c]) \in Seq(UpEvent)
        BY <1>0, <1>2, <2>2, TailTyped DEF TypeOK
      <3> QED
        BY <1>0, <2>2, <3>1 DEF Consume, TypeOK
    <2>3. CASE UNCHANGED <<link, active, terminals, up>>
      BY <1>0, <2>3 DEF TypeOK
    <2> QED
      BY <1>1, <2>1, <2>2, <2>3 DEF Drained, RecvEof, RecvExit, RecvOutput,
         RecvSetTimeout, RecvRoute, RecvGlobal, RecvRemoteDisconnect, Received, ReceivedRoute
  <1>5. down' \in [Client -> Seq(DownEvent)]
    <2>1. CASE \E S : \E event \in DownEvent : down' = Sent(S, event)
      BY <1>0, <2>1, SentTyped
    <2>2. CASE down' = down
      BY <1>0, <2>2 DEF TypeOK
    <2>3. CASE down' = Disconnecting({c})
      BY <1>0, <2>3, DisconnectingTyped
    <2>4. ASSUME RecvRoute(c) PROVE \/ down' = down
                                   \/ \E S : \E event \in DownEvent : down' = Sent(S, event)
      BY <2>4 DEF RecvRoute, ReceivedRoute, Received, DownEvent
    <2>5. ASSUME RecvGlobal(c) PROVE \E S : \E event \in DownEvent : down' = Sent(S, event)
      BY <2>5 DEF RecvGlobal, DownEvent
    <2> QED
      BY <1>1, <2>1, <2>2, <2>3, <2>4, <2>5 DEF Drained, RecvEof, RecvExit, RecvOutput,
         RecvSetTimeout, RecvRemoteDisconnect
  <1>6. /\ clients' \subseteq Client
        /\ sendbuf' \subseteq Client
        /\ timeout' \in [Client -> {"ini", "set"}]
    BY <1>0, <1>1, <1>2 DEF TypeOK, Drained, RecvEof, RecvExit, RecvOutput,
       RecvSetTimeout, RecvRoute, RecvGlobal, RecvRemoteDisconnect
  <1> QED
    BY <1>0, <1>3, <1>4, <1>5, <1>6 DEF SessionRecv, Types, TypeOK

\* A step of the loop keeps the types.
LEMMA TypesLoop ==
  ASSUME Types, Loop \/ Shutdown
  PROVE  Types'
  <1>0. TypeOK
    BY DEF Types
  <1>1. CASE Cleanup
    <2>1. clients \ active \in SUBSET Client
      BY <1>0 DEF TypeOK
    <2> QED
      BY <1>0, <1>1, <2>1, KillSessionTyped, DisconnectingTyped
      DEF Cleanup, Types, TypeOK, Idle
  <1>2. CASE Select
    <2>1. ready' \in [server : BOOLEAN, clients : SUBSET Client, pipes : BOOLEAN]
      BY <1>0, <1>2 DEF Select, TypeOK
    <2> QED
      BY <1>2, <2>1 DEF Select, Types, TypeOK, Idle
  <1>3. CASE \E c \in Client, banned \in BOOLEAN : Accept(c, banned)
    <2>1. PICK c \in Client, banned \in BOOLEAN : Accept(c, banned)
      BY <1>3
    <2>2. CASE Busy \/ banned
      BY <2>1, <2>2 DEF Accept, Types, TypeOK, Idle
    <2>3. CASE ~(Busy \/ banned)
      <3>1. /\ link' \in [Client -> {"away", "backlog", "up", "hup", "shut"}]
            /\ connect' \in [Client -> {"none", "negotiate", "spawn", "register", "stopped"}]
        BY <2>1, <2>3 DEF Accept, Types, TypeOK
      <3>2. clients' \subseteq Client /\ active' \subseteq Client
        BY <2>1, <2>3 DEF Accept, Types, TypeOK
      <3> QED
        BY <2>1, <3>1, <3>2 DEF Accept, Types, TypeOK, Idle
    <2> QED
      BY <2>2, <2>3
  <1>4. CASE ClientRecv
    <2>1. ready.clients \in SUBSET Client
      BY <1>0 DEF TypeOK
    <2>2. Gone \in SUBSET Client
      BY <2>1 DEF Gone, Reached
    <2>3. down' \in [Client -> Seq(DownEvent)]
      <3>1. "refresh" \in DownEvent
        BY DEF DownEvent
      <3> QED
        BY <1>0, <1>4, <3>1, SentTyped, DisconnectingTyped DEF ClientRecv, ReadClients
    <2>4. /\ recvbuf' \subseteq Client
          /\ wire' \in [Client -> {"untyped", "keys", "naws", "read"}]
      BY <1>0, <1>4, <2>1 DEF ClientRecv, ReadClients, Reached, TypeOK
    <2>5. ready' \in [server : BOOLEAN, clients : SUBSET Client, pipes : BOOLEAN]
      BY <1>4 DEF ClientRecv, ReadClients, NothingReady
    <2>6. terms' \subseteq Client /\ todo' \subseteq terms' /\ Idle'
      BY <1>0, <1>4 DEF ClientRecv, NextPhase, TypeOK, Idle
    <2>7. phase' \in {"died", "sessions", "send"}
      BY <1>4 DEF ClientRecv, NextPhase
    <2> QED
      BY <1>0, <1>4, <2>2, <2>3, <2>4, <2>5, <2>6, <2>7, KillSessionTyped
      DEF ClientRecv, ReadClients, Types, TypeOK
  <1>5. CASE SessionRecv
    BY <1>5, TypesSessionRecv
  <1>6. CASE ClientSend
    <2>1. PICK failing \in SUBSET {c \in terms \cap sendbuf : link[c] = "hup"} :
            LET broken == failing \cup {c \in terms \cap sendbuf : link[c] = "shut"} IN
              KillSession(broken) /\ down' = Disconnecting(broken)
      BY <1>6 DEF ClientSend
    <2>2. failing \cup {c \in terms \cap sendbuf : link[c] = "shut"} \in SUBSET Client
      BY <1>0 DEF TypeOK
    <2> QED
      BY <1>0, <1>6, <2>1, <2>2, KillSessionTyped, DisconnectingTyped
      DEF ClientSend, Types, TypeOK, Idle
  <1>7. CASE SessionSend
    <2>1. PICK idle \in SUBSET {c \in terms \ recvbuf : timeout[c] = "set"} :
            LET typed  == terms \cap recvbuf
                killed == idle \cup {c \in typed : Unwritable(c)}
            IN  /\ KillSession(killed)
                /\ down' = [c \in Client |-> IF c \in killed THEN Disconnecting(killed)[c]
                                             ELSE Sent(typed, "input")[c]]
      BY <1>7 DEF SessionSend
    <2> DEFINE killed == idle \cup {c \in terms \cap recvbuf : Unwritable(c)}
    <2>2. killed \in SUBSET Client
      BY <1>0 DEF TypeOK
    <2>3. "input" \in DownEvent
      BY DEF DownEvent
    <2>4. down' \in [Client -> Seq(DownEvent)]
      BY <1>0, <2>1, <2>3, SentTyped, DisconnectingTyped
    <2>5. todo = {}
      BY <1>7 DEF SessionSend, Types, Idle
    <2> QED
      BY <1>0, <1>7, <2>1, <2>2, <2>4, <2>5, KillSessionTyped
      DEF SessionSend, Types, TypeOK, Idle
  <1>8. CASE Shutdown
    <2>1. clients \in SUBSET Client
      BY <1>0 DEF TypeOK
    <2> QED
      BY <1>0, <1>8, <2>1, KillSessionTyped, DisconnectingTyped
      DEF Shutdown, Types, TypeOK, Idle
  <1> QED
    BY <1>1, <1>2, <1>3, <1>4, <1>5, <1>6, <1>7, <1>8 DEF Loop

\* The cases of a step: a peer, a connect thread, a process, the loop, or none.
LEMMA Steps ==
  ASSUME [Next]_vars
  PROVE  \/ \E c \in Client : Peer(c)
         \/ \E c \in Client : ConnectThread(c)
         \/ \E c \in Client : Process(c)
         \/ Loop \/ Shutdown
         \/ UNCHANGED vars
  BY DEF Next, Halted

\* The types hold in every reachable state.
LEMMA TypesHold == Spec => []Types
  <1>1. Types /\ [Next]_vars => Types'
    <2> SUFFICES ASSUME Types, [Next]_vars PROVE Types'
      OBVIOUS
    <2>1. CASE UNCHANGED vars
      BY <2>1 DEF vars, loopVars, Types, TypeOK, Idle
    <2> QED
      BY <2>1, Steps, TypesPeer, TypesConnectThread, TypesProcess, TypesLoop
  <1> QED
    BY TypesInit, <1>1, PTL DEF Spec

\* Every action keeps every variable within its type.
THEOREM TypeCorrect == Spec => []TypeOK
  <1>1. Types => TypeOK
    BY DEF Types
  <1> QED
    BY TypesHold, <1>1, PTL

-----------------------------------------------------------------------------
(* Sockets.  An active client has an open socket and is in server.clients;  *)
(* the cleanup leaves only active clients for select() to poll.             *)

ActiveOpen == \A c \in active : link[c] \in {"up", "hup"}

ActivePolled == active \subseteq clients

SocketsInv == ActiveOpen /\ ActivePolled /\ PolledSocketsOpen

\* Nothing is connected at first.
LEMMA SocketsInit == Init => SocketsInv
  BY DEF Init, SocketsInv, ActiveOpen, ActivePolled, PolledSocketsOpen

\* A killed client is not active, and the sockets of the others stay open.
LEMMA KillSessionSockets ==
  ASSUME TypeOK, ActiveOpen, ActivePolled, NEW K \in SUBSET Client, KillSession(K)
  PROVE  ActiveOpen' /\ active' \subseteq clients \ K
  BY DEF TypeOK, ActiveOpen, ActivePolled, KillSession

\* Nobody but the loop closes a socket, or changes server.clients.
LEMMA SocketsOthers ==
  ASSUME TypeOK, SocketsInv, NEW c \in Client, Peer(c) \/ ConnectThread(c) \/ Process(c)
  PROVE  SocketsInv'
  <1> USE DEF SocketsInv, ActiveOpen, ActivePolled, PolledSocketsOpen, TypeOK, loopVars
  <1>1. CASE Connect(c) \/ HangUp(c)
    <2>1. \/ link[c] = "away" /\ link' = [link EXCEPT ![c] = "backlog"]
          \/ link[c] = "up" /\ link' = [link EXCEPT ![c] = "hup"]
      BY <1>1 DEF Connect, HangUp
    <2>2. UNCHANGED <<clients, active, phase>>
      BY <1>1 DEF Connect, HangUp
    <2>3. ActiveOpen'
      BY <2>1, <2>2
    <2>4. PolledSocketsOpen'
      BY <2>1, <2>2
    <2> QED
      BY <2>2, <2>3, <2>4
  <1>2. CASE NegotiationFails(c)
    BY <1>2 DEF NegotiationFails
  <1>3. CASE UNCHANGED <<link, clients, active, phase>>
    BY <1>3
  <1> QED
    BY <1>1, <1>2, <1>3 DEF Peer, ConnectThread, Process, Type, Negotiated, StartProcess,
       RegisterTty, SendEvent, ReadEvent, EndProcess, CrashProcess, PipeEof

\* A step of the loop keeps the sockets it polls open.
LEMMA SocketsLoop ==
  ASSUME Types, SocketsInv, Loop \/ Shutdown
  PROVE  SocketsInv'
  <1>0. TypeOK /\ ActiveOpen /\ ActivePolled /\ PolledSocketsOpen
    BY DEF Types, SocketsInv
  <1>1. CASE Cleanup
    <2>1. clients \ active \in SUBSET Client
      BY <1>0 DEF TypeOK
    <2>2. ActiveOpen' /\ active' \subseteq clients \ (clients \ active)
      BY <1>0, <1>1, <2>1, KillSessionSockets DEF Cleanup
    <2>3. ActivePolled'
      BY <1>0, <1>1, <2>2 DEF Cleanup, ActivePolled
    <2>4. PolledSocketsOpen'
      BY <1>0, <1>1 DEF Cleanup, PolledSocketsOpen, ActiveOpen, KillSession, TypeOK
    <2> QED
      BY <2>2, <2>3, <2>4 DEF SocketsInv
  <1>2. CASE Select
    BY <1>0, <1>2 DEF Select, SocketsInv, ActiveOpen, ActivePolled, PolledSocketsOpen
  <1>3. CASE \E c \in Client, banned \in BOOLEAN : Accept(c, banned)
    <2>1. PICK c \in Client, banned \in BOOLEAN : Accept(c, banned)
      BY <1>3
    <2>2. c \notin active
      BY <1>0, <2>1 DEF Accept, ActiveOpen
    <2>3. link' = [link EXCEPT ![c] = "up"] \/ link' = [link EXCEPT ![c] = "shut"]
      BY <2>1 DEF Accept
    <2>4. \/ UNCHANGED <<clients, active>>
          \/ /\ link'[c] = "up"
             /\ clients' = clients \cup {c}
             /\ active' = active \cup {c}
      BY <1>0, <2>1 DEF Accept, TypeOK
    <2>5. \A d \in Client \ {c} : link'[d] = link[d]
      BY <1>0, <2>3 DEF TypeOK
    <2>6. ActiveOpen'
      <3>1. \A d \in active \ {c} : link'[d] \in {"up", "hup"}
        BY <1>0, <2>5 DEF ActiveOpen, TypeOK
      <3> QED
        BY <2>2, <2>4, <3>1 DEF ActiveOpen
    <2>7. ActivePolled'
      BY <1>0, <2>4 DEF ActivePolled
    <2>8. PolledSocketsOpen'
      BY <2>1 DEF Accept, PolledSocketsOpen
    <2> QED
      BY <2>6, <2>7, <2>8 DEF SocketsInv
  <1>4. ASSUME NEW K \in SUBSET Client, KillSession(K), UNCHANGED clients,
               phase' \notin {"select", "accept"}
        PROVE  SocketsInv'
    BY <1>0, <1>4, KillSessionSockets DEF SocketsInv, ActivePolled, PolledSocketsOpen
  <1>5. ASSUME UNCHANGED <<link, active, clients>>, phase' \notin {"select", "accept"}
        PROVE  SocketsInv'
    BY <1>0, <1>5 DEF SocketsInv, ActiveOpen, ActivePolled, PolledSocketsOpen
  <1>6. CASE ClientRecv
    <2>1. Gone \in SUBSET Client
      BY <1>0 DEF Gone, Reached, TypeOK
    <2> QED
      BY <1>4, <1>6, <2>1 DEF ClientRecv, ReadClients, NextPhase
  <1>7. CASE SessionRecv
    <2>1. PICK c \in todo : \/ Drained(c)
                            \/ RecvEof(c)
                            \/ RecvExit(c)
                            \/ RecvOutput(c)
                            \/ RecvSetTimeout(c)
                            \/ RecvRoute(c)
                            \/ RecvGlobal(c)
                            \/ RecvRemoteDisconnect(c)
      BY <1>7 DEF SessionRecv
    <2>2. {c} \in SUBSET Client
      BY <1>0 DEF TypeOK
    <2>3. phase' \in {"sessions", "send"}
      BY <1>7, <2>1 DEF SessionRecv, Drained, RecvEof, RecvExit, RecvOutput,
         RecvSetTimeout, RecvRoute, RecvGlobal, RecvRemoteDisconnect, Pass, Abort
    <2>4. UNCHANGED clients /\ (KillSession({c}) \/ UNCHANGED <<link, active>>)
      BY <2>1 DEF Drained, RecvEof, RecvExit, RecvOutput,
         RecvSetTimeout, RecvRoute, RecvGlobal, RecvRemoteDisconnect
    <2> QED
      BY <1>4, <1>5, <2>2, <2>3, <2>4
  <1>8. CASE ClientSend
    <2>1. PICK failing \in SUBSET {c \in terms \cap sendbuf : link[c] = "hup"} :
            KillSession(failing \cup {c \in terms \cap sendbuf : link[c] = "shut"})
      BY <1>8 DEF ClientSend
    <2>2. failing \cup {c \in terms \cap sendbuf : link[c] = "shut"} \in SUBSET Client
      BY <1>0 DEF TypeOK
    <2> QED
      BY <1>4, <1>8, <2>1, <2>2 DEF ClientSend
  <1>9. CASE SessionSend
    <2>1. PICK idle \in SUBSET {c \in terms \ recvbuf : timeout[c] = "set"} :
            KillSession(idle \cup {c \in terms \cap recvbuf : Unwritable(c)})
      BY <1>9 DEF SessionSend
    <2>2. idle \cup {c \in terms \cap recvbuf : Unwritable(c)} \in SUBSET Client
      BY <1>0 DEF TypeOK
    <2> QED
      BY <1>4, <1>9, <2>1, <2>2 DEF SessionSend
  <1>10. CASE Shutdown
    <2>1. clients \in SUBSET Client
      BY <1>0 DEF TypeOK
    <2>2. ActiveOpen' /\ active' \subseteq clients \ clients
      BY <1>0, <1>10, <2>1, KillSessionSockets DEF Shutdown
    <2> QED
      BY <1>10, <2>2 DEF Shutdown, SocketsInv, ActivePolled, PolledSocketsOpen
  <1> QED
    BY <1>1, <1>2, <1>3, <1>6, <1>7, <1>8, <1>9, <1>10 DEF Loop

\* The sockets' invariant holds in every reachable state.
LEMMA SocketsHold == Spec => [](Types /\ SocketsInv)
  <1>1. Types /\ Types' /\ SocketsInv /\ [Next]_vars => SocketsInv'
    <2> SUFFICES ASSUME Types, SocketsInv, [Next]_vars PROVE SocketsInv'
      OBVIOUS
    <2>1. TypeOK
      BY DEF Types
    <2>2. CASE UNCHANGED vars
      BY <2>2 DEF vars, loopVars, SocketsInv, ActiveOpen, ActivePolled, PolledSocketsOpen
    <2> QED
      BY <2>1, <2>2, Steps, SocketsOthers, SocketsLoop
  <1> QED
    BY SocketsInit, TypesHold, <1>1, PTL DEF Spec

\* No closed socket is ever handed to select().
THEOREM PolledAreOpen == Spec => []PolledSocketsOpen
  <1>1. SocketsInv => PolledSocketsOpen
    BY DEF SocketsInv
  <1> QED
    BY SocketsHold, <1>1, PTL

\* A session whose client is active has its pipe among those polled.
THEOREM ActiveArePolled == Spec => []ActiveSessionsPolled
  <1>1. SocketsInv => ActiveSessionsPolled
    BY DEF SocketsInv, ActivePolled, ActiveSessionsPolled
  <1> QED
    BY SocketsHold, <1>1, PTL

-----------------------------------------------------------------------------
(* Disconnected.  A process runs only if its connect thread has started it; *)
(* its pipe is then open until kill_session closes it, which leaves          *)
(* Disconnected there; and what is in a pipe stays until it is read.         *)

Exceptional(pipe) == \E i \in DOMAIN pipe : pipe[i] = "exception"

Fresh == \A c \in Client : link[c] \in {"away", "backlog"} => connect[c] = "none"

Unstarted ==
  \A c \in Client : connect[c] \in {"none", "negotiate", "spawn"} => proc[c] = "none"

ToldInv == Fresh /\ Unstarted /\ KilledSessionsTold

\* Nothing runs at first.
LEMMA ToldInit == Init => ToldInv
  BY DEF Init, ToldInv, Fresh, Unstarted, KilledSessionsTold

\* An appended event leaves those before it, and is there.
LEMMA AppendedEvents ==
  ASSUME NEW q \in Seq(DownEvent), NEW event \in DownEvent
  PROVE  /\ Exceptional(q) => Exceptional(Append(q, event))
         /\ event = "exception" => Exceptional(Append(q, event))
  <1>1. /\ Len(q) \in Nat
        /\ DOMAIN q = 1 .. Len(q)
        /\ DOMAIN Append(q, event) = 1 .. Len(q) + 1
        /\ \A i \in 1 .. Len(q) : Append(q, event)[i] = q[i]
        /\ Append(q, event)[Len(q) + 1] = event
    BY AppendProperties, LenProperties
  <1> QED
    BY <1>1 DEF Exceptional

\* A pipe with Disconnected in it keeps that when another event is read.
LEMMA RemainingEvents ==
  ASSUME NEW q \in Seq(DownEvent), q # << >>, Head(q) # "exception", Exceptional(q)
  PROVE  Exceptional(Tail(q))
  <1>1. PICK i \in DOMAIN q : q[i] = "exception"
    BY DEF Exceptional
  <1>2. DOMAIN q = 1 .. Len(q) /\ Len(q) \in Nat /\ q[1] = Head(q)
    BY LenProperties
  <1>3. /\ DOMAIN Tail(q) = 1 .. Len(q) - 1
        /\ \A j \in 1 .. Len(q) - 1 : Tail(q)[j] = q[j + 1]
    BY <1>2, HeadTailProperties, LenProperties
  <1>4. i - 1 \in 1 .. Len(q) - 1
    BY <1>1, <1>2
  <1> QED
    BY <1>1, <1>2, <1>3, <1>4 DEF Exceptional

\* Events that are sent leave Disconnected where it is.
LEMMA SentKeeps ==
  ASSUME TypeOK, NEW S, NEW event \in DownEvent, NEW c \in Client, Exceptional(down[c])
  PROVE  Exceptional(Sent(S, event)[c])
  <1>1. down[c] \in Seq(DownEvent)
    BY DEF TypeOK
  <1>2. Sent(S, event)[c] \in {down[c], Append(down[c], event)}
    BY DEF Sent
  <1> QED
    BY <1>1, <1>2, AppendedEvents

\* So does killing sessions.
LEMMA DisconnectingKeeps ==
  ASSUME TypeOK, NEW K, NEW c \in Client, Exceptional(down[c])
  PROVE  Exceptional(Disconnecting(K)[c])
  BY SentKeeps DEF Disconnecting, DownEvent

\* And it puts Disconnected in their own pipes.
LEMMA DisconnectingTells ==
  ASSUME TypeOK, NEW K, NEW c \in Client, c \in K \cap terminals, proc[c] = "running"
  PROVE  Exceptional(Disconnecting(K)[c])
  <1>1. down[c] \in Seq(DownEvent) /\ "exception" \in DownEvent
    BY DEF TypeOK, DownEvent
  <1>2. Disconnecting(K)[c] = Append(down[c], "exception")
    BY DEF Disconnecting, Sent
  <1> QED
    BY <1>1, <1>2, AppendedEvents

\* A step that adds to the pipes, and that tells those it unregisters.
LEMMA TellingPreserves ==
  ASSUME TypeOK, ToldInv,
         UNCHANGED <<proc, connect>>,
         \A c \in Client : link'[c] \in {"away", "backlog"} => link[c] \in {"away", "backlog"},
         \A c \in Client : Exceptional(down[c]) => Exceptional(down'[c]),
         \A c \in terminals \ terminals' : proc[c] = "running" => Exceptional(down'[c])
  PROVE  ToldInv'
  <1>1. Fresh'
    BY DEF ToldInv, Fresh
  <1>2. Unstarted'
    BY DEF ToldInv, Unstarted
  <1>3. KilledSessionsTold'
    BY DEF ToldInv, KilledSessionsTold, PipeOpen, Exceptional
  <1> QED
    BY <1>1, <1>2, <1>3 DEF ToldInv

\* Peers do nothing to sessions.
LEMMA ToldPeer ==
  ASSUME TypeOK, ToldInv, NEW c \in Client, Peer(c)
  PROVE  ToldInv'
  <1>1. UNCHANGED <<proc, connect, down, terminals>>
    BY DEF Peer, Connect, Type, HangUp
  <1>2. \A d \in Client : link'[d] \in {"away", "backlog"} => link[d] \in {"away", "backlog"}
    BY DEF Peer, Connect, Type, HangUp, TypeOK
  <1> QED
    BY <1>1, <1>2, TellingPreserves

\* A connect thread opens the pipes before it starts the process, and
\* registers them before it forgets them.
LEMMA ToldConnectThread ==
  ASSUME TypeOK, ToldInv, NEW c \in Client, ConnectThread(c)
  PROVE  ToldInv'
  <1> USE DEF TypeOK, ToldInv, Fresh, Unstarted, KilledSessionsTold, PipeOpen, loopVars
  <1>1. CASE Negotiated(c)
    BY <1>1 DEF Negotiated
  <1>2. CASE NegotiationFails(c)
    BY <1>2 DEF NegotiationFails
  <1>3. CASE StartProcess(c)
    <2>1. UNCHANGED <<link, down, terminals>> /\ connect' = [connect EXCEPT ![c] = "register"]
      BY <1>3 DEF StartProcess
    <2>2. \A d \in Client \ {c} :
            /\ proc'[d] = "running" => proc[d] = "running"
            /\ proc[d] = "none" => proc'[d] = "none"
      BY <1>3 DEF StartProcess
    <2>3. connect[c] = "spawn"
      BY <1>3 DEF StartProcess
    <2>4. connect'[c] = "register" /\ \A d \in Client \ {c} : connect'[d] = connect[d]
      BY <2>1
    <2>5. Fresh'
      BY <2>1, <2>3
    <2>6. Unstarted'
      <3> SUFFICES ASSUME NEW d \in Client, connect'[d] \in {"none", "negotiate", "spawn"}
                   PROVE  proc'[d] = "none"
        OBVIOUS
      <3>1. d \in Client \ {c} /\ connect[d] \in {"none", "negotiate", "spawn"}
        BY <2>4
      <3>2. proc[d] = "none"
        BY <3>1
      <3> QED
        BY <2>2, <3>1, <3>2
    <2>7. KilledSessionsTold'
      <3> SUFFICES ASSUME NEW d \in Client, proc'[d] = "running", ~PipeOpen(d)'
                   PROVE  \E i \in DOMAIN down'[d] : down'[d][i] = "exception"
        OBVIOUS
      <3>1. d \in Client \ {c} /\ ~PipeOpen(d)
        BY <2>1, <2>4
      <3>2. proc[d] = "running"
        BY <2>2, <3>1
      <3> QED
        BY <2>1, <3>1, <3>2
    <2> QED
      BY <2>5, <2>6, <2>7
  <1>4. CASE RegisterTty(c)
    BY <1>4 DEF RegisterTty
  <1> QED
    BY <1>1, <1>2, <1>3, <1>4 DEF ConnectThread

\* A process that reads Disconnected does not run on.
LEMMA ToldProcess ==
  ASSUME TypeOK, ToldInv, NEW c \in Client, Process(c)
  PROVE  ToldInv'
  <1>1. UNCHANGED <<link, connect, terminals>>
    BY DEF Process, SendEvent, ReadEvent, EndProcess, CrashProcess, PipeEof
  <1>2. /\ proc[c] # "none"
        /\ \A d \in Client \ {c} : proc'[d] = proc[d] /\ down'[d] = down[d]
    BY DEF Process, SendEvent, ReadEvent, ReadException, ReadOther, EndProcess,
       CrashProcess, PipeEof, TypeOK
  <1>3. proc'[c] = "running" /\ proc[c] = "running" /\ Exceptional(down[c])
          => Exceptional(down'[c])
    <2>1. CASE ReadEvent(c)
      <3>1. ReadException(c) => proc'[c] # "running"
        BY DEF ReadException, TypeOK
      <3>2. ReadOther(c) => down'[c] = Tail(down[c]) /\ Head(down[c]) # "exception"
        BY DEF ReadOther, TypeOK
      <3>3. down[c] \in Seq(DownEvent) /\ down[c] # << >>
        BY <2>1 DEF ReadEvent, TypeOK
      <3> QED
        BY <2>1, <3>1, <3>2, <3>3, RemainingEvents DEF ReadEvent
    <2>2. CASE SendEvent(c)
      BY <2>2 DEF SendEvent
    <2>3. CASE EndProcess(c) \/ CrashProcess(c) \/ PipeEof(c)
      BY <2>3 DEF EndProcess, CrashProcess, PipeEof, TypeOK
    <2> QED
      BY <2>1, <2>2, <2>3 DEF Process
  <1>4. proc'[c] = "running" => proc[c] = "running"
    BY DEF Process, SendEvent, ReadEvent, ReadException, ReadOther, EndProcess,
       CrashProcess, PipeEof, TypeOK
  <1>5. Fresh'
    BY <1>1 DEF ToldInv, Fresh
  <1>6. Unstarted'
    BY <1>1, <1>2 DEF ToldInv, Unstarted
  <1>7. KilledSessionsTold'
    BY <1>1, <1>2, <1>3, <1>4 DEF ToldInv, KilledSessionsTold, PipeOpen, Exceptional
  <1> QED
    BY <1>5, <1>6, <1>7 DEF ToldInv

\* kill_session as the loop calls it tells each session it unregisters.
LEMMA KillSessionPreserves ==
  ASSUME TypeOK, ToldInv, NEW K \in SUBSET Client, KillSession(K),
         UNCHANGED <<proc, connect>>,
         \A c \in Client : Exceptional(down[c]) => Exceptional(down'[c]),
         \A c \in K \cap terminals : proc[c] = "running" => Exceptional(down'[c])
  PROVE  ToldInv'
  <1>1. \A c \in Client : link'[c] \in {"away", "backlog"} => link[c] \in {"away", "backlog"}
    BY DEF KillSession
  <1>2. terminals \ terminals' \subseteq K \cap terminals
    BY DEF KillSession
  <1> QED
    BY <1>1, <1>2, TellingPreserves

\* The same, when nothing else is sent.
LEMMA OnlyKillPreserves ==
  ASSUME TypeOK, ToldInv, NEW K \in SUBSET Client, KillSession(K),
         UNCHANGED <<proc, connect>>, down' = Disconnecting(K)
  PROVE  ToldInv'
  <1>1. ASSUME NEW c \in Client, Exceptional(down[c])
        PROVE  Exceptional(down'[c])
    <2>1. Exceptional(Disconnecting(K)[c])
      BY <1>1, DisconnectingKeeps
    <2> QED
      BY <2>1
  <1>2. ASSUME NEW c \in K \cap terminals, proc[c] = "running"
        PROVE  Exceptional(down'[c])
    <2>1. Exceptional(Disconnecting(K)[c])
      BY <1>2, DisconnectingTells
    <2> QED
      BY <2>1
  <1> QED
    BY <1>1, <1>2, KillSessionPreserves

\* So does a step of session_recv.
LEMMA ToldSessionRecv ==
  ASSUME TypeOK, ToldInv, SessionRecv
  PROVE  ToldInv'
  <1>1. PICK c \in todo : \/ Drained(c)
                          \/ RecvEof(c)
                          \/ RecvExit(c)
                          \/ RecvOutput(c)
                          \/ RecvSetTimeout(c)
                          \/ RecvRoute(c)
                          \/ RecvGlobal(c)
                          \/ RecvRemoteDisconnect(c)
    BY DEF SessionRecv
  <1>2. {c} \in SUBSET Client
    BY DEF TypeOK
  <1>3. UNCHANGED <<proc, connect>>
    BY DEF SessionRecv
  <1>4. CASE KillSession({c}) /\ down' = Disconnecting({c})
    BY <1>2, <1>3, <1>4, OnlyKillPreserves
  <1>5. ASSUME UNCHANGED <<link, terminals>>,
               down' = down \/ \E S : \E event \in DownEvent : down' = Sent(S, event)
        PROVE  ToldInv'
    <2>1. \A d \in Client : Exceptional(down[d]) => Exceptional(down'[d])
      BY <1>5, SentKeeps
    <2> QED
      BY <1>3, <1>5, <2>1, TellingPreserves
  <1>6. CASE RecvRoute(c)
    <2>1. Head(up[c]).ev \in DownEvent
      BY <1>6 DEF RecvRoute, ReceivedRoute, Received, DownEvent
    <2> QED
      BY <1>5, <1>6, <2>1 DEF RecvRoute
  <1>7. CASE RecvGlobal(c)
    BY <1>5, <1>7 DEF RecvGlobal, DownEvent
  <1>8. CASE Drained(c) \/ RecvOutput(c) \/ RecvSetTimeout(c)
    BY <1>5, <1>8 DEF Drained, RecvOutput, RecvSetTimeout
  <1>9. CASE RecvEof(c) \/ RecvExit(c)
    BY <1>4, <1>9 DEF RecvEof, RecvExit
  <1>10. CASE RecvRemoteDisconnect(c)
    BY <1>4, <1>5, <1>10 DEF RecvRemoteDisconnect
  <1> QED
    BY <1>1, <1>6, <1>7, <1>8, <1>9, <1>10

\* And any step of the loop.
LEMMA ToldLoop ==
  ASSUME TypeOK, ToldInv, Loop \/ Shutdown
  PROVE  ToldInv'
  <1>1. CASE Cleanup \/ Shutdown
    <2>1. clients \ active \in SUBSET Client /\ clients \in SUBSET Client
      BY DEF TypeOK
    <2> QED
      BY <1>1, <2>1, OnlyKillPreserves DEF Cleanup, Shutdown
  <1>2. CASE Select
    BY <1>2, TellingPreserves DEF Select
  <1>3. CASE \E c \in Client, banned \in BOOLEAN : Accept(c, banned)
    <2>1. PICK c \in Client, banned \in BOOLEAN : Accept(c, banned)
      BY <1>3
    <2>2. link[c] = "backlog" /\ UNCHANGED <<proc, down, terminals>>
      BY <2>1 DEF Accept
    <2>3. /\ link'[c] \in {"up", "shut"}
          /\ \A d \in Client \ {c} : link'[d] = link[d] /\ connect'[d] = connect[d]
          /\ connect'[c] \in {connect[c], "negotiate"}
      BY <2>1 DEF Accept, TypeOK
    <2>4. connect[c] = "none" /\ proc[c] = "none"
      BY <2>2 DEF ToldInv, Fresh, Unstarted
    <2>5. Fresh'
      BY <2>2, <2>3 DEF ToldInv, Fresh
    <2>6. Unstarted'
      BY <2>2, <2>3, <2>4 DEF ToldInv, Unstarted
    <2>7. KilledSessionsTold'
      BY <2>2, <2>3, <2>4 DEF ToldInv, KilledSessionsTold, PipeOpen
    <2> QED
      BY <2>5, <2>6, <2>7 DEF ToldInv
  <1>4. CASE ClientRecv
    <2>1. Gone \in SUBSET Client
      BY DEF Gone, Reached, TypeOK
    <2>2. PICK S : down' = [c \in Client |-> IF c \in Gone THEN Disconnecting(Gone)[c]
                                            ELSE Sent(S, "refresh")[c]]
      BY <1>4 DEF ClientRecv, ReadClients
    <2>3. "refresh" \in DownEvent
      BY DEF DownEvent
    <2>4. ASSUME NEW c \in Client, Exceptional(down[c])
          PROVE  Exceptional(down'[c])
      <3>1. Exceptional(Disconnecting(Gone)[c])
        BY <2>4, DisconnectingKeeps
      <3>2. Exceptional(Sent(S, "refresh")[c])
        BY <2>3, <2>4, SentKeeps
      <3>3. down'[c] = Disconnecting(Gone)[c] \/ down'[c] = Sent(S, "refresh")[c]
        BY <2>2
      <3> QED
        BY <3>1, <3>2, <3>3
    <2>5. \A c \in Gone \cap terminals : proc[c] = "running" => Exceptional(down'[c])
      BY <2>1, <2>2, DisconnectingTells
    <2> QED
      BY <1>4, <2>1, <2>4, <2>5, KillSessionPreserves DEF ClientRecv, ReadClients
  <1>5. CASE SessionRecv
    BY <1>5, ToldSessionRecv
  <1>6. CASE ClientSend
    <2>1. PICK failing \in SUBSET {c \in terms \cap sendbuf : link[c] = "hup"} :
            LET broken == failing \cup {c \in terms \cap sendbuf : link[c] = "shut"} IN
              KillSession(broken) /\ down' = Disconnecting(broken)
      BY <1>6 DEF ClientSend
    <2>2. failing \cup {c \in terms \cap sendbuf : link[c] = "shut"} \in SUBSET Client
      BY DEF TypeOK
    <2> QED
      BY <1>6, <2>1, <2>2, OnlyKillPreserves DEF ClientSend
  <1>7. CASE SessionSend
    <2>1. PICK idle \in SUBSET {c \in terms \ recvbuf : timeout[c] = "set"} :
            LET typed  == terms \cap recvbuf
                killed == idle \cup {c \in typed : Unwritable(c)}
            IN  /\ KillSession(killed)
                /\ down' = [c \in Client |-> IF c \in killed THEN Disconnecting(killed)[c]
                                             ELSE Sent(typed, "input")[c]]
      BY <1>7 DEF SessionSend
    <2> DEFINE killed == idle \cup {c \in terms \cap recvbuf : Unwritable(c)}
    <2>2. killed \in SUBSET Client /\ "input" \in DownEvent
      BY DEF TypeOK, DownEvent
    <2>3. ASSUME NEW c \in Client, Exceptional(down[c])
          PROVE  Exceptional(down'[c])
      <3> DEFINE typed == terms \cap recvbuf
      <3> HIDE DEF killed, typed
      <3>1. Exceptional(Disconnecting(killed)[c])
        BY <2>3, DisconnectingKeeps
      <3>2. Exceptional(Sent(typed, "input")[c])
        BY <2>2, <2>3, SentKeeps
      <3>3. down'[c] = Disconnecting(killed)[c] \/ down'[c] = Sent(typed, "input")[c]
        BY <2>1 DEF killed, typed
      <3> QED
        BY <3>1, <3>2, <3>3
    <2>4. \A c \in killed \cap terminals : proc[c] = "running" => Exceptional(down'[c])
      BY <2>1, <2>2, DisconnectingTells
    <2>5. KillSession(killed) /\ UNCHANGED <<proc, connect>>
      BY <1>7, <2>1 DEF SessionSend
    <2> HIDE DEF killed
    <2> QED
      BY <2>2, <2>3, <2>4, <2>5, KillSessionPreserves
  <1> QED
    BY <1>1, <1>2, <1>3, <1>4, <1>5, <1>6, <1>7 DEF Loop

\* A process whose pipe the engine has closed finds Disconnected in what it
\* has still to read, or has read it.
THEOREM KilledAreTold == Spec => []KilledSessionsTold
  <1>1. Types /\ Types' /\ ToldInv /\ [Next]_vars => ToldInv'
    <2> SUFFICES ASSUME Types, ToldInv, [Next]_vars PROVE ToldInv'
      OBVIOUS
    <2>1. TypeOK
      BY DEF Types
    <2>2. CASE UNCHANGED vars
      BY <2>2 DEF vars, loopVars, ToldInv, Fresh, Unstarted, KilledSessionsTold, PipeOpen
    <2> QED
      BY <2>1, <2>2, Steps, ToldPeer, ToldConnectThread, ToldProcess, ToldLoop
  <1>2. ToldInv => KilledSessionsTold
    BY DEF ToldInv
  <1> QED
    BY ToldInit, TypesHold, <1>1, <1>2, PTL DEF Spec

-----------------------------------------------------------------------------
\* A client once deactivated stays so, and once out of server.clients it never
\* returns: only accept(), which makes a new client, adds one.
THEOREM ClientsNeverReturn == Spec => NoRevival
  <1>1. TypeOK /\ [Next]_vars
          => [/\ \A c \in Client : c \notin active /\ link[c] # "backlog" => c \notin active'
              /\ \A c \in Client : c \notin clients /\ link[c] # "backlog" => c \notin clients']_vars
    <2> SUFFICES ASSUME TypeOK, [Next]_vars,
                        ~(\E c \in Client, banned \in BOOLEAN : Accept(c, banned))
                 PROVE  active' \subseteq active /\ clients' \subseteq clients
      BY DEF Accept
    <2>1. CASE \E c \in Client : Peer(c) \/ ConnectThread(c) \/ Process(c)
      BY <2>1 DEF Peer, Connect, Type, HangUp, ConnectThread, Negotiated, NegotiationFails,
         StartProcess, RegisterTty, Process, SendEvent, ReadEvent, EndProcess,
         CrashProcess, PipeEof
    <2>2. CASE SessionRecv
      BY <2>2 DEF SessionRecv, Drained, RecvEof, RecvExit, RecvOutput, RecvSetTimeout,
         RecvRoute, RecvGlobal, RecvRemoteDisconnect, KillSession
    <2>3. CASE Cleanup \/ Select \/ ClientRecv \/ ClientSend \/ SessionSend \/ Shutdown
      BY <2>3 DEF Cleanup, Select, ClientRecv, ReadClients, ClientSend, SessionSend,
         Shutdown, KillSession
    <2>4. CASE UNCHANGED vars
      BY <2>4 DEF vars
    <2> QED
      BY <2>1, <2>2, <2>3, <2>4, Steps DEF Loop
  <1> QED
    BY TypeCorrect, <1>1, PTL DEF Spec, NoRevival
=============================================================================
