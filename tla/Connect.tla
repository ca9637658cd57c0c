------------------------------- MODULE Connect -------------------------------
(***************************************************************************)
(* How an ssh or an rlogin client becomes a session (ssh.py, rlogin.py):   *)
(* the connect thread of one client, the callbacks that the thread of      *)
(* paramiko runs as the peer asks for things, the peer, and what the loop  *)
(* does of a client that has no terminal yet: it reads, and it shuts down  *)
(* whoever is no longer active.                                            *)
(*                                                                         *)
(* Of the strings that an rlogin client sends, what counts is how many     *)
(* have come, each ended by a NUL.  A poll is a step of the thread; time   *)
(* is counted in waits (the limit of 30 s, or 5 s, is MaxWait of them).    *)
(***************************************************************************)
EXTENDS Naturals

CONSTANTS
  MaxWait,    \* TIME_WAIT_STAGE, TIME_NEGOTIATE
  MaxAuths,   \* attempts to log in that the peer makes (a bound)
  SftpEnabled

ConnectAssumption == MaxWait \in Nat \ {0} /\ MaxAuths \in Nat /\ SftpEnabled \in BOOLEAN

VARIABLES
  kind,       \* client.kind
  thread,     \* what the connect thread does
  waited,     \* time since it started
  active,     \* the flag of the client
  transport,  \* of an ssh client
  channel,
  asked,      \* shell_requested, sftp_requested
  auth,       \* whether paramiko has let the peer in
  auths,      \* how often it has tried
  login,      \* username, new, anonymous of SshSessionServer
  peer,       \* whether the peer keeps its end open
  typed,      \* rlogin: strings it has sent that nobody has read
  buffer,     \* recv_buffer
  data,       \* what get_connect_data has of them
  passed      \* what spawn_client_session was given, once it was called

vars == <<kind, thread, waited, active, transport, channel, asked, auth, auths, login, peer,
          typed, buffer, data, passed>>

Account  == {"none", "new", "bye", "anonymous", "user"}
NoLogin  == [username |-> "none", new |-> FALSE, anonymous |-> FALSE]
Login    == [username : Account, new : BOOLEAN, anonymous : BOOLEAN]
NotYet   == [kind |-> "none", login |-> NoLogin]
Strings  == 4    \* null, client user, server user, terminal type and speed
IsSsh    == kind \in {"ssh", "sftp"}
sshVars  == <<transport, channel, asked, auth, auths>>
dataVars == <<typed, buffer, data>>

TypeOK ==
  /\ kind \in {"ssh", "sftp", "rlogin"}
  /\ thread \in {"start", "accept", "detect", "data", "take", "login", "spawn", "ended"}
  /\ waited \in 0 .. MaxWait
  /\ active \in BOOLEAN
  /\ transport \in {"none", "up", "closed"}
  /\ channel \in {"none", "opened", "accepted"}
  /\ asked \subseteq {"shell", "sftp"}
  /\ auth \in BOOLEAN
  /\ auths \in 0 .. MaxAuths
  /\ login \in Login
  /\ peer \in BOOLEAN
  /\ typed \in 0 .. Strings /\ buffer \in 0 .. Strings /\ data \in 0 .. Strings
  /\ passed.kind \in {"none", "ssh", "sftp", "rlogin"} /\ passed.login \in Login

Init ==
  /\ kind \in {"ssh", "rlogin"}
  /\ thread = "start"
  /\ waited = 0
  /\ active = TRUE
  /\ transport = "none" /\ channel = "none"
  /\ asked = {}
  /\ auth = FALSE /\ auths = 0
  /\ login = NoLogin
  /\ peer = TRUE
  /\ typed = 0 /\ buffer = 0 /\ data = 0
  /\ passed = NotYet

-----------------------------------------------------------------------------
(* The client.                                                             *)

\* While the connection is being negotiated, the flag; then what the transport says.
IsActive ==
  IF transport = "none" \/ channel # "accepted" THEN active ELSE transport = "up"

\* The socket of an rlogin client, or the transport of an ssh client, is closed.
ShutDown ==
  /\ active' = FALSE
  /\ transport' = IF transport = "up" THEN "closed" ELSE transport
  /\ UNCHANGED <<channel, asked, auth, auths>>

\* The flag is taken down: on the way to an end without a session.
Deactivate == active' = FALSE /\ thread' = "ended"

-----------------------------------------------------------------------------
(* The peer, and the callbacks.                                            *)

NoVerify(username) == username \in {"new", "anonymous"}

\* check_auth_password, check_auth_publickey: what an attempt sets it leaves set.
CheckAuth(username) ==
  /\ IsSsh /\ transport = "up" /\ peer /\ ~auth /\ auths < MaxAuths
  /\ auths' = auths + 1
  /\ login' = [username  |-> username,
               new       |-> login.new \/ username = "new",
               anonymous |-> login.anonymous \/ username = "anonymous"]
  /\ \/ NoVerify(username) /\ auth' = TRUE
     \/ username = "user" /\ auth' \in BOOLEAN
     \/ username = "bye" /\ auth' = FALSE
  /\ UNCHANGED <<kind, thread, waited, active, transport, channel, asked, peer, dataVars,
                 passed>>

OpenChannel ==
  /\ IsSsh /\ transport = "up" /\ peer /\ auth /\ channel = "none"
  /\ channel' = "opened"
  /\ UNCHANGED <<kind, thread, waited, active, transport, asked, auth, auths, login, peer,
                 dataVars, passed>>

ShellRequest ==
  /\ IsSsh /\ transport = "up" /\ peer /\ channel # "none"
  /\ asked' = asked \cup {"shell"}
  /\ UNCHANGED <<kind, thread, waited, active, transport, channel, auth, auths, login, peer,
                 dataVars, passed>>

\* The client is of another kind before the connect thread is told.
SubsystemRequest ==
  /\ IsSsh /\ transport = "up" /\ peer /\ channel # "none" /\ SftpEnabled
  /\ kind' = "sftp"
  /\ asked' = asked \cup {"sftp"}
  /\ UNCHANGED <<thread, waited, active, transport, channel, auth, auths, login, peer,
                 dataVars, passed>>

SendString ==
  /\ kind = "rlogin" /\ peer /\ active
  /\ typed + buffer + data < Strings
  /\ typed' = typed + 1
  /\ UNCHANGED <<kind, thread, waited, active, sshVars, login, peer, buffer, data, passed>>

HangUp ==
  /\ peer /\ peer' = FALSE
  /\ transport' = IF transport = "up" THEN "closed" ELSE transport
  /\ UNCHANGED <<kind, thread, waited, active, channel, asked, auth, auths, login, dataVars,
                 passed>>

-----------------------------------------------------------------------------
(* ConnectSsh.run.                                                         *)

TimeLeft == waited < MaxWait

\* Transport, start_server: an exception when the peer has left, or does not speak ssh.
StartServer ==
  /\ kind = "ssh" /\ thread = "start"
  /\ \/ peer /\ transport' = "up" /\ thread' = "accept" /\ UNCHANGED active
     \/ transport' = "closed" /\ Deactivate
  /\ UNCHANGED <<kind, waited, channel, asked, auth, auths, login, peer, dataVars, passed>>

Accept ==
  /\ thread = "accept" /\ TimeLeft /\ channel = "opened"
  /\ channel' = "accepted" /\ thread' = "detect"
  /\ UNCHANGED <<kind, waited, active, transport, asked, auth, auths, login, peer, dataVars,
                 passed>>

\* mutant of NoChannel: the client is left as it is
NoChannelLeftActive ==
  /\ thread = "accept"
  /\ transport # "up" \/ ~TimeLeft
  /\ thread' = "ended"
  /\ UNCHANGED <<kind, waited, active, sshVars, login, peer, dataVars, passed>>

\* "transport closed", "no channel requested"
NoChannel ==
  /\ thread = "accept"
  /\ transport # "up" \/ ~TimeLeft
  /\ Deactivate
  /\ UNCHANGED <<kind, waited, sshVars, login, peer, dataVars, passed>>

Detected ==
  /\ thread = "detect" /\ asked # {}
  /\ thread' = "spawn"
  /\ UNCHANGED <<kind, waited, active, sshVars, login, peer, dataVars, passed>>

\* "transport closed while waiting", "shell not requested"
NotDetected ==
  /\ thread = "detect" /\ asked = {} /\ (~IsActive \/ ~TimeLeft)
  /\ Deactivate
  /\ UNCHANGED <<kind, waited, sshVars, login, peer, dataVars, passed>>

-----------------------------------------------------------------------------
(* ConnectRLogin.run.                                                      *)

\* _set_socket_opts: on a closed socket, an exception
SetOptions ==
  /\ kind = "rlogin" /\ thread = "start"
  /\ IF active THEN thread' = "data" /\ UNCHANGED active ELSE Deactivate
  /\ UNCHANGED <<kind, waited, sshVars, login, peer, dataVars, passed>>

\* get_connect_data: recv_ready, socket_recv; an end of file raises Disconnected.
\* What is buffered is read.  (The loop's thread may replace the buffer meanwhile.)
Read ==
  /\ thread = "data" /\ data < 3
  /\ \/ typed > 0 /\ active /\ buffer' = buffer + typed /\ typed' = 0
     \/ buffer > 0 /\ UNCHANGED <<typed, buffer>>
  /\ thread' = "take" /\ data' = data + buffer'
  /\ UNCHANGED <<kind, waited, active, sshVars, login, peer, passed>>

\* mutant of Take: the buffer is not replaced, and read again
TakeAgain ==
  /\ thread = "take"
  /\ thread' = "data"
  /\ UNCHANGED <<kind, waited, active, sshVars, login, peer, typed, buffer, data, passed>>

\* get_input puts a new buffer: what was appended to the old one since is lost.
Take ==
  /\ thread = "take"
  /\ buffer' = 0 /\ thread' = "data"
  /\ UNCHANGED <<kind, waited, active, sshVars, login, peer, typed, data, passed>>

\* Three strings will do; the user they name is one of the configured accounts or another.
Parse ==
  /\ thread = "data" /\ data >= 3
  /\ \E username \in Account \ {"none"} :
       login' = [username |-> username, new |-> username = "new",
                 anonymous |-> username = "anonymous"]
  /\ thread' = "login"
  /\ UNCHANGED <<kind, waited, active, sshVars, peer, dataVars, passed>>

\* The zero byte, and the urgent byte, are buffered.  "Bye user used by rlogin"
CheckLogin ==
  /\ thread = "login"
  /\ IF login.username = "bye" \/ ~IsActive
     THEN Deactivate
     ELSE thread' = "spawn" /\ UNCHANGED active
  /\ UNCHANGED <<kind, waited, sshVars, login, peer, dataVars, passed>>

\* "rlogin on-connect timeout"; the end of the peer's strings, or of the socket
NoData ==
  /\ thread = "data" /\ data < 3
  /\ \/ waited = MaxWait
     \/ active /\ ~peer /\ typed = 0
  /\ Deactivate
  /\ UNCHANGED <<kind, waited, sshVars, login, peer, dataVars, passed>>

\* "rlogin bandwidth exceeded": the peer has sent MAXLEN bytes, which were not the
\* strings.  The thread does not depend on a peer that does so.
TooMuchData ==
  /\ thread = "data" /\ data < 3
  /\ Deactivate
  /\ UNCHANGED <<kind, waited, sshVars, login, peer, dataVars, passed>>

-----------------------------------------------------------------------------
(* Both.                                                                   *)

\* spawn_client_session; or the process cannot be started
Spawn ==
  /\ thread = "spawn"
  /\ \/ /\ passed' = [kind |-> kind, login |-> login]
        /\ thread' = "ended" /\ UNCHANGED active
     \/ Deactivate /\ UNCHANGED passed
  /\ UNCHANGED <<kind, waited, sshVars, login, peer, dataVars>>

\* accept(1), sleep(TIME_POLL)
Wait ==
  /\ thread \in {"accept", "detect", "data"} /\ waited < MaxWait
  /\ waited' = waited + 1
  /\ UNCHANGED <<kind, thread, active, sshVars, login, peer, dataVars, passed>>

-----------------------------------------------------------------------------
(* The loop.                                                               *)

\* client_recv, which reads for any client that is ready, and kills at the end of file
LoopReceive ==
  /\ kind = "rlogin" /\ active
  /\ \/ /\ typed > 0
        /\ buffer' = buffer + typed /\ typed' = 0
        /\ UNCHANGED <<active, sshVars>>
     \/ typed = 0 /\ ~peer /\ ShutDown /\ UNCHANGED <<typed, buffer>>
  /\ UNCHANGED <<kind, thread, waited, login, peer, data, passed>>

\* kill_session(client, 'socket shutdown')
LoopShutDown ==
  /\ ~IsActive /\ (active \/ transport = "up")
  /\ ShutDown
  /\ UNCHANGED <<kind, thread, waited, login, peer, dataVars, passed>>

-----------------------------------------------------------------------------
ConnectStep ==
  \/ StartServer \/ Accept \/ NoChannel \/ Detected \/ NotDetected
  \/ SetOptions \/ Read \/ Take \/ Parse \/ CheckLogin \/ NoData
  \/ Spawn

\* What the peer and the loop do then is of no interest.
Finished == thread = "ended" /\ UNCHANGED vars

Next ==
  \/ \E username \in Account \ {"none"} : CheckAuth(username)
  \/ OpenChannel \/ ShellRequest \/ SubsystemRequest \/ SendString \/ HangUp
  \/ ConnectStep \/ TooMuchData \/ Wait
  \/ LoopReceive \/ LoopShutDown
  \/ Finished

\* The thread runs, and its waits come to an end.
Fairness == WF_vars(ConnectStep) /\ WF_vars(Wait)

Spec == Init /\ [][Next]_vars /\ Fairness

-----------------------------------------------------------------------------
(* Properties.                                                             *)

\* Every connect thread ends, whatever the peer does and whatever is lost of its strings,
\* and then it has handed its client to a session or has told the loop to let it go.
Settled == thread = "ended" /\ (passed # NotYet \/ ~active)

\* A client that was flagged for disconnection is one that the loop disconnects.
DeactivatedIsInactive == thread = "ended" /\ ~active => ~IsActive
=============================================================================
