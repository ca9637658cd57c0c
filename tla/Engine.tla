------------------------------- MODULE Engine -------------------------------
(***************************************************************************)
(* The main event loop of x/84 (engine.py, _loop) together with what runs  *)
(* beside it: the remote peers, one on-connect thread for each accepted    *)
(* client (client.py, telnet.py), the sub-process of each session, and the *)
(* registry of terminals (terminal.py) they share.                         *)
(*                                                                         *)
(* A client is one tcp connection; its session id is made of its address   *)
(* and port, so one identity stands for the client, its connect thread,    *)
(* its sub-process and its tty.  The loop visits terminals in the order    *)
(* of the dictionary, which is arbitrary: clients are numbered, and the    *)
(* loop visits them by number.                                             *)
(*                                                                         *)
(* The loop is one thread and its phases are steps; everything else        *)
(* interleaves between them.                                               *)
(***************************************************************************)
EXTENDS Naturals, Sequences, FiniteSets

CONSTANTS
  NumClients,      \* connections that are ever made
  MaxConnections,  \* BaseServer.MAX_CONNECTIONS
  MaxEvents,       \* events the sessions send in all, besides 'exit' and answers (a bound)
  Typing           \* what a peer may send: keystrokes, a telnet window size

ASSUME EngineAssumption ==
  /\ NumClients \in Nat \ {0}
  /\ MaxConnections \in Nat
  /\ MaxEvents \in Nat
  /\ Typing \subseteq {"keys", "naws"}

Client == 1 .. NumClients
NoSid  == 0

\* What a session sends to the engine.  `to' is the session addressed.  A
\* `route' that answers an event the session has read is told apart.
UpEvent ==
  [ev : {"output", "route", "answer", "global", "remote-disconnect", "set-timeout", "exit"},
   to : Client \cup {NoSid}]

DownEvent == {"input", "refresh", "route", "answer", "global", "exception"}

VARIABLES
  link,       \* the tcp connection, as the server's kernel sees it
  wire,       \* the one chunk a peer sends
  clients,    \* server.clients
  active,     \* clients whose `active' attribute is True
  recvbuf,    \* clients with a non-empty recv_buffer
  sendbuf,    \* clients with a non-empty send_buffer
  connect,    \* where the on-connect thread of a client is
  proc,       \* the session's sub-process
  emitted,    \* how many events the sessions have sent
  terminals,  \* TERMINALS: clients whose tty is registered
  timeout,    \* tty.timeout: the string of the ini file, or a number
  up,         \* tty.master_read: events to the engine
  down,       \* tty.master_write: events to the session
  phase,      \* where the loop is
  ready,      \* what select() returned
  terms,      \* the loop's snapshot of get_terminals()
  todo        \* terminals of the snapshot session_recv has still to drain

loopVars == <<phase, ready, terms, todo>>
vars == <<link, wire, clients, active, recvbuf, sendbuf, connect, proc, emitted,
          terminals, timeout, up, down, loopVars>>

NothingReady == [server |-> FALSE, clients |-> {}, pipes |-> FALSE]

TypeOK ==
  /\ link \in [Client -> {"away", "backlog", "up", "hup", "shut"}]
  /\ wire \in [Client -> {"untyped", "keys", "naws", "read"}]
  /\ clients \subseteq Client
  /\ active \subseteq Client
  /\ recvbuf \subseteq Client
  /\ sendbuf \subseteq Client
  /\ connect \in [Client -> {"none", "negotiate", "spawn", "register", "stopped"}]
  /\ proc \in [Client -> {"none", "running", "closing", "ended", "crashed",
                     "reaped", "eof"}]
  /\ emitted \in 0 .. MaxEvents
  /\ terminals \subseteq Client
  /\ timeout \in [Client -> {"ini", "set"}]
  /\ up \in [Client -> Seq(UpEvent)]
  /\ down \in [Client -> Seq(DownEvent)]
  /\ phase \in {"cleanup", "select", "accept", "recv", "sessions", "send", "input", "down", "died"}
  /\ ready \in [server : BOOLEAN, clients : SUBSET Client, pipes : BOOLEAN]
  /\ terms \subseteq Client
  /\ todo \subseteq terms

Init ==
  /\ link = [c \in Client |-> "away"]
  /\ wire = [c \in Client |-> "untyped"]
  /\ clients = {}
  /\ active = {}
  /\ recvbuf = {}
  /\ sendbuf = {}
  /\ connect = [c \in Client |-> "none"]
  /\ proc = [c \in Client |-> "none"]
  /\ emitted = 0
  /\ terminals = {}
  /\ timeout = [c \in Client |-> "ini"]
  /\ up = [c \in Client |-> << >>]
  /\ down = [c \in Client |-> << >>]
  /\ phase = "cleanup"
  /\ ready = NothingReady
  /\ terms = {}
  /\ todo = {}

-----------------------------------------------------------------------------
(* Remote peers.                                                           *)

Connect(c) ==
  /\ link[c] = "away"
  /\ link' = [link EXCEPT ![c] = "backlog"]
  /\ UNCHANGED <<wire, clients, active, recvbuf, sendbuf, connect, proc, emitted,
                 terminals, timeout, up, down, loopVars>>

Type(c) ==
  /\ link[c] = "up"
  /\ wire[c] = "untyped"
  /\ \E chunk \in Typing : wire' = [wire EXCEPT ![c] = chunk]
  /\ UNCHANGED <<link, clients, active, recvbuf, sendbuf, connect, proc, emitted,
                 terminals, timeout, up, down, loopVars>>

HangUp(c) ==
  /\ link[c] = "up"
  /\ link' = [link EXCEPT ![c] = "hup"]
  /\ UNCHANGED <<wire, clients, active, recvbuf, sendbuf, connect, proc, emitted,
                 terminals, timeout, up, down, loopVars>>

-----------------------------------------------------------------------------
(* On-connect threads: negotiation, then spawn_client_session in two       *)
(* steps, Process.start() and register_tty(), neither of which looks again *)
(* at whether the client is still active.                                  *)

Negotiated(c) ==
  /\ connect[c] = "negotiate"
  /\ c \in active
  /\ connect' = [connect EXCEPT ![c] = "spawn"]
  /\ UNCHANGED <<link, wire, clients, active, recvbuf, sendbuf, proc, emitted,
                 terminals, timeout, up, down, loopVars>>

\* the peer disconnects or an exception is raised; or is_active() is False
NegotiationFails(c) ==
  /\ connect[c] = "negotiate"
  /\ connect' = [connect EXCEPT ![c] = "stopped"]
  /\ active' = active \ {c}
  /\ UNCHANGED <<link, wire, clients, recvbuf, sendbuf, proc, emitted,
                 terminals, timeout, up, down, loopVars>>

\* Process.start() first joins the processes that have died and lets go of
\* their Process objects.
StartProcess(c) ==
  /\ connect[c] = "spawn"
  /\ connect' = [connect EXCEPT ![c] = "register"]
  /\ proc' = [d \in Client |-> IF d = c THEN "running"
                               ELSE IF proc[d] \in {"ended", "crashed"} THEN "reaped"
                               ELSE proc[d]]
  /\ UNCHANGED <<link, wire, clients, active, recvbuf, sendbuf, emitted,
                 terminals, timeout, up, down, loopVars>>

\* mutant of RegisterTty: the client is put back among those polled
RegisterTtyRevives(c) ==
  /\ connect[c] = "register"
  /\ connect' = [connect EXCEPT ![c] = "stopped"]
  /\ terminals' = terminals \cup {c}
  /\ timeout' = [timeout EXCEPT ![c] = "ini"]
  /\ clients' = clients \cup {c}
  /\ UNCHANGED <<link, wire, active, recvbuf, sendbuf, proc, emitted,
                 up, down, loopVars>>

RegisterTty(c) ==
  /\ connect[c] = "register"
  /\ connect' = [connect EXCEPT ![c] = "stopped"]
  /\ terminals' = terminals \cup {c}
  /\ timeout' = [timeout EXCEPT ![c] = "ini"]
  /\ UNCHANGED <<link, wire, clients, active, recvbuf, sendbuf, proc, emitted,
                 up, down, loopVars>>

-----------------------------------------------------------------------------
(* Session sub-processes.  A pipe is open from before Process.start() until *)
(* unregister_tty closes it; what is written to a closed pipe is lost.      *)

PipeOpen(c) == connect[c] = "register" \/ c \in terminals

SendUp(c, event, to) ==
  IF PipeOpen(c)
  THEN up' = [up EXCEPT ![c] = Append(@, [ev |-> event, to |-> to])]
  ELSE up' = up

SendEvent(c) ==
  /\ proc[c] = "running"
  /\ emitted < MaxEvents
  /\ emitted' = emitted + 1
  /\ \/ \E event \in {"output", "global", "set-timeout"} : SendUp(c, event, NoSid)
     \/ \E event \in {"route", "remote-disconnect"}, to \in Client \ {c} :
           SendUp(c, event, to)
  /\ UNCHANGED <<link, wire, clients, active, recvbuf, sendbuf, connect, proc,
                 terminals, timeout, down, loopVars>>

\* read_events(): buffer_event() raises what an 'exception' event carries,
\* and run() returns on Disconnected
ReadException(c) ==
  /\ Head(down[c]) = "exception"
  /\ proc' = [proc EXCEPT ![c] = "closing"]
  /\ down' = [down EXCEPT ![c] = << >>]
  /\ up' = up

\* buffer_event() answers 'AYT' (a global event) and 'info-req' (one routed)
\* with a 'route' to the session that asks, and buffers other events.
ReadOther(c) ==
  /\ Head(down[c]) # "exception"
  /\ down' = [down EXCEPT ![c] = Tail(@)]
  /\ proc' = proc
  /\ \/ up' = up
     \/ /\ Head(down[c]) \in {"global", "route"}
        /\ \E to \in Client \ {c} : SendUp(c, "answer", to)

ReadEvent(c) ==
  /\ proc[c] = "running"
  /\ down[c] # << >>
  /\ ReadException(c) \/ ReadOther(c)
  /\ UNCHANGED <<link, wire, clients, active, recvbuf, sendbuf, connect, emitted,
                 terminals, timeout, loopVars>>

\* the script stack is empty, or Disconnected was raised: start_process
\* sends 'exit' in its finally clause
EndProcess(c) ==
  /\ proc[c] \in {"running", "closing"}
  /\ SendUp(c, "exit", NoSid)
  /\ proc' = [proc EXCEPT ![c] = "ended"]
  /\ down' = [down EXCEPT ![c] = << >>]
  /\ UNCHANGED <<link, wire, clients, active, recvbuf, sendbuf, connect, emitted,
                 terminals, timeout, loopVars>>

\* the sub-process dies without running its finally clause
CrashProcess(c) ==
  /\ proc[c] = "running"
  /\ proc' = [proc EXCEPT ![c] = "crashed"]
  /\ down' = [down EXCEPT ![c] = << >>]
  /\ UNCHANGED <<link, wire, clients, active, recvbuf, sendbuf, connect, emitted,
                 terminals, timeout, up, loopVars>>

\* spawn_client_session until it returns, the engine's Process object until
\* another process starts, and the processes forked meanwhile hold copies of
\* the session's ends of the pipes.  When the last is closed, if ever, the
\* engine reads end-of-file from the one pipe, and a write to the other raises
\* IOError.
PipeEof(c) ==
  /\ proc[c] = "reaped"
  /\ c \in terminals
  /\ proc' = [proc EXCEPT ![c] = "eof"]
  /\ UNCHANGED <<link, wire, clients, active, recvbuf, sendbuf, connect, emitted,
                 terminals, timeout, up, down, loopVars>>

-----------------------------------------------------------------------------
(* kill_session() for each client of a set: shut the socket down and, where *)
(* a tty is registered, send it Disconnected and unregister it, which       *)
(* discards the events it sent and closes its pipes.                        *)

\* mutant of KillSession: the client is not deactivated
KillSessionKeepsActive(K) ==
  /\ link' = [c \in Client |-> IF c \in K THEN "shut" ELSE link[c]]
  /\ active' = active
  /\ terminals' = terminals \ K
  /\ up' = [c \in Client |-> IF c \in K \cap terminals THEN << >> ELSE up[c]]

KillSession(K) ==
  /\ link' = [c \in Client |-> IF c \in K THEN "shut" ELSE link[c]]
  /\ active' = active \ K
  /\ terminals' = terminals \ K
  /\ up' = [c \in Client |-> IF c \in K \cap terminals THEN << >> ELSE up[c]]

\* A write to the pipe of c raises IOError: the engine has closed it, or its
\* reader is gone.
Unwritable(c) == c \notin terminals \/ proc[c] = "eof"

\* An event sent to each session of S.  One whose process reads no more is
\* lost on it.
Sent(S, event) ==
  [c \in Client |-> IF c \in S /\ proc[c] = "running" THEN Append(down[c], event)
                                                      ELSE down[c]]

\* mutant of Disconnecting: the tty is looked up once it is unregistered
DisconnectingLate(K) == Sent(K \cap (terminals \ K), "exception")

\* what the sessions of K receive as they are killed
Disconnecting(K) == Sent(K \cap terminals, "exception")

-----------------------------------------------------------------------------
(* The event loop.                                                         *)

\* mutant of Cleanup: it drops the clients whose connect thread is done
CleanupNegotiated ==
  /\ phase = "cleanup"
  /\ clients' = {c \in clients : connect[c] # "stopped"}
  /\ phase' = "select"
  /\ UNCHANGED <<link, wire, active, recvbuf, sendbuf, connect, proc, emitted,
                 terminals, timeout, up, down, ready, terms, todo>>

Cleanup ==
  /\ phase = "cleanup"
  /\ LET dead == clients \ active IN
       /\ KillSession(dead)
       /\ down' = Disconnecting(dead)
       /\ clients' = clients \ dead
  /\ phase' = "select"
  /\ UNCHANGED <<wire, recvbuf, sendbuf, connect, proc, emitted, timeout,
                 ready, terms, todo>>

Typed(c) == wire[c] \in {"keys", "naws"}

\* mutant of Select: a hang-up does not make a socket ready
SelectTyped ==
  /\ phase = "select"
  /\ ready' = [server  |-> \E c \in Client : link[c] = "backlog",
               clients |-> {c \in clients : Typed(c)},
               pipes   |-> \E c \in clients \cap terminals :
                              up[c] # << >> \/ proc[c] = "eof"]
  /\ phase' = IF ready'.server THEN "accept" ELSE "recv"
  /\ UNCHANGED <<link, wire, clients, active, recvbuf, sendbuf, connect, proc, emitted,
                 terminals, timeout, up, down, terms, todo>>

Select ==
  /\ phase = "select"
  /\ ready' = [server  |-> \E c \in Client : link[c] = "backlog",
               clients |-> {c \in clients : Typed(c) \/ link[c] = "hup"},
               pipes   |-> \E c \in clients \cap terminals :
                              up[c] # << >> \/ proc[c] = "eof"]
  /\ phase' = IF ready'.server THEN "accept" ELSE "recv"
  /\ UNCHANGED <<link, wire, clients, active, recvbuf, sendbuf, connect, proc, emitted,
                 terminals, timeout, up, down, terms, todo>>

Busy == Cardinality(clients) > MaxConnections

\* `banned' is what check_ban() answers
Accept(c, banned) ==
  /\ phase = "accept"
  /\ link[c] = "backlog"
  /\ IF Busy \/ banned
     THEN /\ link' = [link EXCEPT ![c] = "shut"]
          /\ UNCHANGED <<clients, active, connect>>
     ELSE /\ link' = [link EXCEPT ![c] = "up"]
          /\ clients' = clients \cup {c}
          /\ active' = active \cup {c}
          /\ connect' = [connect EXCEPT ![c] = "negotiate"]
  /\ phase' = "recv"
  /\ UNCHANGED <<wire, recvbuf, sendbuf, proc, emitted,
                 terminals, timeout, up, down, ready, terms, todo>>

(* client_recv().  Keystrokes are buffered.  A window size is written to    *)
(* the session at once, by on_naws(); nothing catches the IOError of a pipe  *)
(* whose reader is gone, and the loop ends there.  (Unwritable(c) with c     *)
(* registered: on_naws() looks no further than the registry.)               *)

Fatal == {c \in ready.clients \cap terminals : wire[c] = "naws" /\ Unwritable(c)}

\* the clients that are read: all, or those before one that is fatal
Reached == {c \in ready.clients : \A f \in Fatal : c < f}

Gone == {c \in Reached : ~Typed(c)}

ReadClients ==
  LET resized == {c \in Reached \cap terminals : wire[c] = "naws"} IN
    /\ KillSession(Gone)
    /\ down' = [c \in Client |-> IF c \in Gone THEN Disconnecting(Gone)[c]
                                 ELSE Sent(resized, "refresh")[c]]
    /\ recvbuf' = recvbuf \cup {c \in Reached : wire[c] = "keys"}
    /\ wire' = [c \in Client |-> IF c \in Reached \ Gone THEN "read" ELSE wire[c]]
    /\ ready' = NothingReady    \* not used again before the next select()
    /\ UNCHANGED <<clients, sendbuf, connect, proc, emitted, timeout>>

NextPhase ==
  phase' = IF Fatal # {} THEN "died" ELSE IF todo' # {} THEN "sessions" ELSE "send"

\* mutant of ClientRecv: the sessions to drain are listed too early
ClientRecvEarlyList ==
  /\ phase = "recv"
  /\ ReadClients
  /\ terms' = terminals \ Gone
  /\ todo' = IF ready.pipes THEN terminals ELSE {}
  /\ NextPhase

\* mutant of ClientRecv: terminals are listed only if one of them is ready
ClientRecvListIfReady ==
  /\ phase = "recv"
  /\ ReadClients
  /\ terms' = IF ready.pipes THEN terminals \ Gone ELSE {}
  /\ todo' = terms'
  /\ NextPhase

\* client_recv(), then get_terminals()
ClientRecv ==
  /\ phase = "recv"
  /\ ReadClients
  /\ terms' = terminals \ Gone
  /\ todo' = IF ready.pipes THEN terms' ELSE {}
  /\ NextPhase

(* session_recv(): the terminals of the snapshot are drained in turn, each  *)
(* until poll() says its pipe is empty, or until its session is killed.     *)

First(c) == \A d \in todo : c <= d

Pass(c) ==      \* go on with the terminal after c
  /\ todo' = todo \ {c}
  /\ phase' = IF todo = {c} THEN "send" ELSE "sessions"

Abort ==        \* IOError: _loop warns and leaves session_recv
  /\ todo' = {}
  /\ phase' = "send"

Drained(c) ==
  /\ up[c] = << >>
  /\ proc[c] # "eof"
  /\ Pass(c)
  /\ UNCHANGED <<link, clients, active, sendbuf, terminals, timeout, up, down>>

RecvEof(c) ==
  /\ up[c] = << >>
  /\ proc[c] = "eof"
  /\ KillSession({c})
  /\ down' = Disconnecting({c})
  /\ Pass(c)
  /\ UNCHANGED <<clients, sendbuf, timeout>>

Received(c, event) ==
  /\ up[c] # << >>
  /\ Head(up[c]).ev = event

ReceivedRoute(c) == Received(c, "route") \/ Received(c, "answer")

Consume(c) == up' = [up EXCEPT ![c] = Tail(@)]

\* mutant of RecvExit: the tty is unregistered, the client left alone
RecvExitKeepsClient(c) ==
  /\ Received(c, "exit")
  /\ terminals' = terminals \ {c}
  /\ up' = [up EXCEPT ![c] = << >>]
  /\ Pass(c)
  /\ UNCHANGED <<link, active, down, clients, sendbuf, timeout>>

RecvExit(c) ==
  /\ Received(c, "exit")
  /\ KillSession({c})
  /\ down' = Disconnecting({c})
  /\ Pass(c)
  /\ UNCHANGED <<clients, sendbuf, timeout>>

RecvOutput(c) ==
  /\ Received(c, "output")
  /\ Consume(c)
  /\ sendbuf' = sendbuf \cup {c}
  /\ UNCHANGED <<link, clients, active, terminals, timeout, down, phase, todo>>

RecvSetTimeout(c) ==
  /\ Received(c, "set-timeout")
  /\ Consume(c)
  /\ timeout' = [timeout EXCEPT ![c] = "set"]
  /\ UNCHANGED <<link, clients, active, sendbuf, terminals, down, phase, todo>>

\* The first terminal of the snapshot with the session id addressed.
\* Its pipe may have been closed earlier in this pass, or its process be dead.
RecvRoute(c) ==
  /\ ReceivedRoute(c)
  /\ Consume(c)
  /\ LET to == Head(up[c]).to IN
       \/ /\ to \in terms /\ ~Unwritable(to)
          /\ down' = Sent({to}, Head(up[c]).ev)
          /\ UNCHANGED <<phase, todo>>
       \/ /\ to \in terms /\ Unwritable(to)
          /\ Abort
          /\ UNCHANGED down
       \/ /\ to \notin terms
          /\ UNCHANGED <<down, phase, todo>>
  /\ UNCHANGED <<link, clients, active, sendbuf, terminals, timeout>>

\* Every other terminal of the snapshot in turn, up to the first that cannot
\* be written to.
RecvGlobal(c) ==
  /\ Received(c, "global")
  /\ Consume(c)
  /\ LET others  == terms \ {c}
         broken  == {t \in others : Unwritable(t)}
         reached == {t \in others : \A b \in broken : t < b}
     IN  /\ down' = Sent(reached, "global")
         /\ IF broken # {} THEN Abort ELSE UNCHANGED <<phase, todo>>
  /\ UNCHANGED <<link, clients, active, sendbuf, terminals, timeout>>

\* data[0] of the session id that online.py sends is its first character,
\* which is no session's id.  Were it one, the session killed would be c
\* itself, whose pipe is then polled although closed.
FirstItem(event) == NoSid

RecvRemoteDisconnect(c) ==
  /\ Received(c, "remote-disconnect")
  /\ IF FirstItem(Head(up[c])) \in terms
     THEN /\ KillSession({c})
          /\ down' = Disconnecting({c})
          /\ Abort
     ELSE /\ Consume(c)
          /\ UNCHANGED <<link, active, terminals, down, phase, todo>>
  /\ UNCHANGED <<clients, sendbuf, timeout>>

SessionRecv ==
  /\ phase = "sessions"
  /\ \E c \in todo :
       /\ First(c)
       /\ \/ Drained(c)
          \/ RecvEof(c)
          \/ RecvExit(c)
          \/ RecvOutput(c)
          \/ RecvSetTimeout(c)
          \/ RecvRoute(c)
          \/ RecvGlobal(c)
          \/ RecvRemoteDisconnect(c)
  /\ UNCHANGED <<wire, recvbuf, connect, proc, emitted, ready, terms>>

\* A send to a socket that is closed raises Disconnected; one to a socket
\* the peer has left may.
ClientSend ==
  /\ phase = "send"
  /\ \E failing \in SUBSET {c \in terms \cap sendbuf : link[c] = "hup"} :
       LET broken == failing \cup {c \in terms \cap sendbuf : link[c] = "shut"} IN
         /\ KillSession(broken)
         /\ down' = Disconnecting(broken)
  /\ sendbuf' = sendbuf \ terms
  /\ phase' = "input"
  /\ UNCHANGED <<wire, clients, recvbuf, connect, proc, emitted, timeout,
                 ready, terms, todo>>

\* Input goes to the session, and its client is killed (again, if its tty was
\* unregistered since the snapshot) when the pipe cannot be written to.  Where there is no input,
\* an idle client is killed -- never while the timeout is the ini file's
\* string, which is greater than any number.
SessionSend ==
  /\ phase = "input"
  /\ \E idle \in SUBSET {c \in terms \ recvbuf : timeout[c] = "set"} :
       LET typed  == terms \cap recvbuf
           killed == idle \cup {c \in typed : Unwritable(c)}
       IN  /\ KillSession(killed)
           /\ down' = [c \in Client |-> IF c \in killed THEN Disconnecting(killed)[c]
                                        ELSE Sent(typed, "input")[c]]
  /\ recvbuf' = recvbuf \ terms
  /\ phase' = "cleanup"
  /\ terms' = {}              \* not used again before the next snapshot
  /\ UNCHANGED <<wire, clients, sendbuf, connect, proc, emitted, timeout,
                 ready, todo>>

\* ^C, between any two steps of the loop
Shutdown ==
  /\ phase \notin {"down", "died"}
  /\ KillSession(clients)
  /\ down' = Disconnecting(clients)
  /\ clients' = {}
  /\ phase' = "down"
  /\ UNCHANGED <<wire, recvbuf, sendbuf, connect, proc, emitted, timeout,
                 ready, terms, todo>>

\* main() returns once every client is killed, or raises what ended the loop
Halted ==
  /\ phase \in {"down", "died"}
  /\ UNCHANGED vars

-----------------------------------------------------------------------------
Peer(c) == Connect(c) \/ Type(c) \/ HangUp(c)

ConnectThread(c) ==
  Negotiated(c) \/ NegotiationFails(c) \/ StartProcess(c) \/ RegisterTty(c)

Process(c) ==
  SendEvent(c) \/ ReadEvent(c) \/ EndProcess(c) \/ CrashProcess(c) \/ PipeEof(c)

Loop ==
  \/ Cleanup
  \/ Select
  \/ \E c \in Client, banned \in BOOLEAN : Accept(c, banned)
  \/ ClientRecv
  \/ SessionRecv
  \/ ClientSend
  \/ SessionSend

Next ==
  \/ \E c \in Client : Peer(c) \/ ConnectThread(c) \/ Process(c)
  \/ Loop
  \/ Shutdown
  \/ Halted

Spec == Init /\ [][Next]_vars

\* The loop never waits for long (select() returns after 20ms).  A connect
\* thread finishes: each stage of negotiation is limited in time.  Sessions
\* read events sooner or later, but send none they need not send; one that
\* was told Disconnected unwinds to start_process.
Fairness ==
  /\ WF_vars(Loop)
  /\ \A c \in Client :
       /\ WF_vars(ConnectThread(c))
       /\ WF_vars(ReadEvent(c))
       /\ WF_vars(proc[c] = "closing" /\ EndProcess(c))

FairSpec == Spec /\ Fairness

-----------------------------------------------------------------------------
(* Properties.                                                             *)

\* Every descriptor handed to select() is open: a client whose socket the
\* loop closed is out of server.clients before the next select(), where its
\* fileno() of None would raise a TypeError nothing catches.
PolledSocketsOpen ==
  phase \in {"select", "accept"} => \A c \in clients : link[c] # "shut"

\* A session whose client is active is served: its client is in
\* server.clients, so its pipe is among those select() polls.
ActiveSessionsPolled ==
  \A c \in terminals \cap active : c \in clients

\* A session is never dropped in silence: as long as its process runs and
\* has not read it, the Disconnected that kill_session sent is in its pipe.
KilledSessionsTold ==
  \A c \in Client :
    proc[c] = "running" /\ ~PipeOpen(c)
      => \E i \in DOMAIN down[c] : down[c][i] = "exception"

\* Once a client is deactivated it stays so and, once it has left
\* server.clients, it never returns there.
NoRevival ==
  [][/\ \A c \in Client : c \notin active /\ link[c] # "backlog" => c \notin active'
     /\ \A c \in Client : c \notin clients /\ link[c] # "backlog" => c \notin clients']_vars

\* A peer that hangs up is noticed: it leaves server.clients.
HangUpNoticed ==
  \A c \in Client : link[c] = "hup" ~> link[c] = "shut"

\* What a user types reaches the session, unless the connection is closed.
InputReachesSession ==
  \A c \in Client : c \in recvbuf ~> c \notin recvbuf \/ link[c] = "shut"

\* A session that ends takes its connection with it.
ExitDisconnects ==
  \A c \in Client : proc[c] = "ended" ~> link[c] = "shut" \/ phase = "down"

\* A process whose tty the engine has unregistered ends.
KilledSessionsEnd ==
  \A c \in Client :
    proc[c] = "running" /\ ~PipeOpen(c) ~> proc[c] \in {"ended", "crashed", "reaped", "eof"}

\* "bbs sessions that are no longer active on the socket level -- send them
\* a 'kill signal'" (engine.py:461): a tty whose client was deactivated is
\* unregistered.
DeadClientsLoseTheirTty ==
  \A c \in Client : c \in terminals \ active ~> c \notin terminals \/ phase = "down"

\* "Main event loop. Never returns." (engine.py:436): but for ^C, that is.
NeverReturns == phase # "died"

\* The sessions of the snapshot other than c, which broadcasts.
Audience(c) == (terms \cap terminals) \ {c}

\* "message broadcasting to all sessions" (engine.py:406): a broadcast that
\* is taken from its sender's pipe reaches every other session.
BroadcastReachesAll ==
  [][\A c \in Client :
       phase = "sessions" /\ Received(c, "global") /\ up'[c] = Tail(up[c]) /\ phase' # "down"
         => \A t \in Audience(c) :
              proc[t] = "running" => down'[t] = Append(down[t], "global")]_vars
=============================================================================
