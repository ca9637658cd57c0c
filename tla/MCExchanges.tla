----------------------------- MODULE MCExchanges ----------------------------
(***************************************************************************)
(* The components that talk to another process, thread or host, and must   *)
(* get an answer from it, model-checked in one run, one at a time: a       *)
(* behaviour is one of the part that its initial state chooses.  The parts *)
(* do not interact, and so they take turns with the same variables; those  *)
(* that a part does not use stay 0.                                        *)
(***************************************************************************)
EXTENDS Integers, Sequences

CONSTANTS
  MaxRequests, MaxGosubs, NumItems,                                  \* of the database,
  Script, Matrix, Reads, MaxEvents, MaxCalls, GlobalMax,             \* of the session,
  Hub, Member, Batch, Before, MaxPosts, MaxFaults,                   \* of the network
  Spoken, MaxWhims,                                                  \* of telnet
  MaxWait, MaxAuths, SftpEnabled                                     \* and of the others

VARIABLES
  part,
  x1, x2, x3, x4, x5, x6, x7, x8, x9, x10, x11, x12, x13, x14, x15, x16, x17

vars == <<part,
          x1, x2, x3, x4, x5, x6, x7, x8, x9, x10, x11, x12, x13, x14, x15, x16, x17>>

-----------------------------------------------------------------------------
(* The parts.                                                              *)

D == INSTANCE DbProxy WITH
  pipe <- x1, made <- x2, buffer <- x3, kind <- x4, handlers <- x5, asking <- x6,
  gosubs <- x7, mixed <- x8, unopened <- x9, got <- x10

N == INSTANCE MsgNet WITH
  posts <- x1, msgs <- x2, source <- x3, trans <- x4, queue <- x5, last <- x6,
  netLast <- x7, pc <- x8, batch <- x9, keys <- x10, todo <- x11, put <- x12,
  faults <- x13, tagged <- x14, saves <- x15, cut <- x16

S == INSTANCE Session WITH
  pipe <- x1, sent <- x2, buffer <- x3, taken <- x4, stack <- x5, calls <- x6,
  closed <- x7

T == INSTANCE Telnet WITH
  local <- x1, remote <- x2, active <- x3, term <- x4, asked <- x5, replied <- x6,
  heard <- x7, stage <- x8, made <- x9, late <- x10, coding <- x11, toEnd <- x12,
  toHost <- x13, mine <- x14, yours <- x15, willing <- x16, whims <- x17

C == INSTANCE Connect WITH
  kind <- x1, thread <- x2, waited <- x3, active <- x4, transport <- x5, channel <- x6,
  asked <- x7, auth <- x8, auths <- x9, login <- x10, peer <- x11, typed <- x12,
  buffer <- x13, data <- x14, passed <- x15

ASSUME DbProxyBounds == D!DbProxyAssumption
ASSUME MsgNetBounds == N!MsgNetAssumption
ASSUME SessionBounds == S!SessionAssumption
ASSUME TelnetBounds == T!TelnetAssumption
ASSUME ConnectBounds == C!ConnectAssumption

\* The variables that a part of so many does not use
after15 == <<x16, x17>>
after10 == <<x11, x12, x13, x14, x15, after15>>
after7  == <<x8, x9, x10, after10>>

Unused15 == x16 = 0 /\ x17 = 0
Unused10 == x11 = 0 /\ x12 = 0 /\ x13 = 0 /\ x14 = 0 /\ x15 = 0 /\ Unused15
Unused7  == x8 = 0 /\ x9 = 0 /\ x10 = 0 /\ Unused10

Init ==
  \/ part = "database" /\ D!Init /\ Unused10
  \/ part = "network" /\ N!Init /\ x17 = 0
  \/ part = "session" /\ S!Init /\ Unused7
  \/ part = "telnet" /\ T!Init
  \/ part = "connect" /\ C!Init /\ Unused15

Next ==
  /\ UNCHANGED part
  /\ \/ part = "database" /\ D!Next /\ UNCHANGED after10
     \/ part = "network" /\ N!Next /\ UNCHANGED x17
     \/ part = "session" /\ S!Next /\ UNCHANGED after7
     \/ part = "telnet" /\ T!Next
     \/ part = "connect" /\ C!Next /\ UNCHANGED after15

(* The fairness that each module states, of the part that runs.            *)

DatabaseFairness ==
  /\ \A r \in D!Request : WF_(D!vars)(part = "database" /\ D!HandlerSends(r))
  /\ WF_(D!vars)(part = "database" /\ D!Read)
  /\ WF_(D!vars)(part = "database" /\ D!NextItem)
  /\ WF_(D!vars)(part = "database" /\ D!Resume)

NetworkFairness ==
  /\ WF_(N!vars)(part = "network" /\ N!HubStep)
  /\ \A m \in Member : WF_(N!vars)(part = "network" /\ N!MemberStep(m))

TelnetFairness ==
  /\ WF_(T!vars)(part = "telnet" /\ T!HostReceive)
  /\ WF_(T!vars)(part = "telnet" /\ T!RefuseEcho)
  /\ WF_(T!vars)(part = "telnet" /\ T!EndReceive)
  /\ WF_(T!vars)(part = "telnet" /\ T!Banner)
  /\ WF_(T!vars)(part = "telnet" /\ T!Negotiated)
  /\ WF_(T!vars)(part = "telnet" /\ T!GiveUp)
  /\ WF_(T!vars)(part = "telnet" /\ T!Spawn)
  /\ WF_(T!vars)(part = "telnet" /\ T!TimePasses)

ConnectFairness ==
  /\ WF_(C!vars)(part = "connect" /\ C!ConnectStep)
  /\ WF_(C!vars)(part = "connect" /\ C!Wait)

Spec ==
  /\ Init /\ [][Next]_vars
  /\ DatabaseFairness /\ NetworkFairness /\ TelnetFairness /\ ConnectFairness

-----------------------------------------------------------------------------
(* Properties: those of the modules, of the part that runs.                *)

\* The variables of each part are what its module says.
TypeOK ==
  /\ part = "database" => D!TypeOK
  /\ part = "network" => N!TypeOK
  /\ part = "session" => S!TypeOK
  /\ part = "telnet" => T!TypeOK
  /\ part = "connect" => C!TypeOK

\* A session whose scripts are done with one request to the databases before they make
\* another takes, for each request, the answer to that request (dbproxy.py:88).
DbOwnAnswer == part = "database" => D!OwnAnswer

\* It does not wait for ever, if its databases can be opened: in the end what waits is
\* done with, or mixed with another request (db.py:150).
DbAnswered ==
  \A r \in D!Request :
    (part = "database" /\ D!Waits(r)) ~> (part = "database" /\ ~D!Waits(r))

\* On every board of a message network a message is saved as a reply to no message or
\* to the one that its author replied to, by whatever numbers they go there; and
\* `trans' says which message of the hub is which (msgpoll.py, msgserve.py).
NetThreadsFaithful == part = "network" => N!ThreadsFaithful

\* What a member's user posts stays queued until the hub has it, whatever fails between,
\* from the moment that it is queued: a session that is killed between the save and the
\* queue leaves it out (msgbase.py:207).  While nothing fails, no board saves a message
\* twice, the member that it came from included.
NetExactlyOnce == part = "network" => N!QueuedOrPublished /\ N!SavedOnce

\* Every message that is tagged at the hub while it is still beyond what the member asks
\* for gets to that member in the end, after lost answers and restarts too: unless an
\* answer that is full leaves it out (msgserve.py:209), or the member ended as it wrote
\* its last file, which stops its poller (msgpoll.py:256).
NetDelivered ==
  \A p \in N!Post, m \in Member :
    (part = "network" /\ N!IsServed(p, m))
      ~> (part = "network" /\ (N!Reaches(p, m) \/ N!IsLeftOut(p, m) \/ N!HasStopped(m)))

\* Scripts that call each other, are interrupted by an event and fail: the script stack is
\* their calls, what one does not take of the events of a kind comes to the next in
\* order, and who was interrupted and still waits finds a refresh (session.py:283).
ScriptsNest ==
  [][part = "session" =>
       S!StackIsCalls' /\ S!EventsInOrder /\ S!InterruptedIsRefreshed]_vars

\* When everything said has been heard, both ends of a telnet connection think the same of
\* the options for which each tells the other of a change (telnet.py:585).
TelnetAgreement == part = "telnet" => T!Agreement

\* Every negotiation comes to an end.  Both ends of a telnet connection stop to ask and to
\* answer each other; every connect thread of the other servers ends, whatever the peer
\* does or leaves out, with the client handed to a session or told off to the loop.
HandshakesSettle ==
  /\ <>[](part = "telnet" => T!Quiet)
  /\ <>[](part = "connect" => C!Settled)
=============================================================================
