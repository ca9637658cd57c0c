-------------------------------- MODULE Locks --------------------------------
(***************************************************************************)
(* The bbs-global locks: handle_lock of engine.py, and its two users, the  *)
(* node number of a session (session.py, node and close) and the nodes of  *)
(* a door (sesame.py, acquire_node).                                       *)
(*                                                                         *)
(* A session asks over its pipe and waits for the event that answers.  The *)
(* engine may kill it at any time: its tty is unregistered, the requests   *)
(* in its pipe are thrown away, and the process runs on until it reads the *)
(* Disconnected left for it.  The lock dictionary is not touched: a lock   *)
(* counts as free when its holder is no longer registered.                 *)
(*                                                                         *)
(* Both users pass None as the `stale' age of a request, so a lock is      *)
(* never taken from a registered holder for its age.                       *)
(***************************************************************************)
EXTENDS Naturals, Sequences

CONSTANTS
  Session,       \* session ids; none is used twice
  None,
  NumNodes,      \* the numbers session.node tries: 65533
  DoorNodes,     \* sesame's `{name}_nodes'
  MaxInterrupts  \* waits for a door that are interrupted (a bound)

ASSUME LocksAssumption ==
  /\ None \notin Session
  /\ NumNodes \in Nat \ {0}
  /\ DoorNodes \in Nat \ {0}
  /\ MaxInterrupts \in Nat

Node == 1 .. NumNodes
Door == 1 .. DoorNodes
NoNode == 0

Lock(kind, n) == [kind |-> kind, n |-> n]
NodeLock == [kind : {"node"}, n : Node]
DoorLock == [kind : {"door"}, n : Door]
Key == NodeLock \cup DoorLock

Message == [method : {"acquire", "release"}, key : Key] \cup [method : {"exit"}]

VARIABLES
  locks,      \* the engine's lock dictionary: the holder of each key
  tty,        \* whether TERMINALS holds the session's tty
  pc,         \* what the session's process is doing
  at,         \* the number it asks for (pc "node", "door") or plays on ("play")
  node,       \* session._node
  outbox,     \* requests on their way to the engine
  replies,    \* for each key, the answers the session has not taken
  interrupts  \* how many waits for a door were interrupted

vars == <<locks, tty, pc, at, node, outbox, replies, interrupts>>

Registered == {s \in Session : tty[s] = "registered"}

TypeOK ==
  /\ locks \in [Key -> Session \cup {None}]
  /\ tty \in [Session -> {"none", "registered", "closed"}]
  /\ pc \in [Session -> {"off", "node", "main", "door", "play", "gone"}]
  /\ at \in [Session -> Nat]
  /\ \A s \in Session : /\ pc[s] = "node" => at[s] \in Node
                        /\ pc[s] \in {"door", "play"} => at[s] \in Door
  /\ node \in [Session -> Node \cup {NoNode}]
  /\ outbox \in [Session -> Seq(Message)]
  /\ replies \in [Session -> [Key -> Seq(BOOLEAN)]]
  /\ interrupts \in 0 .. MaxInterrupts

Init ==
  /\ locks = [k \in Key |-> None]
  /\ tty = [s \in Session |-> "none"]
  /\ pc = [s \in Session |-> "off"]
  /\ at = [s \in Session |-> 0]
  /\ node = [s \in Session |-> NoNode]
  /\ outbox = [s \in Session |-> << >>]
  /\ replies = [s \in Session |-> [k \in Key |-> << >>]]
  /\ interrupts = 0

-----------------------------------------------------------------------------
(* The session's side.                                                     *)

\* Messages sent after the engine closed the pipe are lost.
Send(s, messages) ==
  outbox' = [outbox EXCEPT ![s] = IF tty[s] = "closed" THEN @ ELSE @ \o messages]

Acquire(k) == [method |-> "acquire", key |-> k]
Release(k) == [method |-> "release", key |-> k]
Exit       == [method |-> "exit"]

Ask(s, kind, n) ==
  /\ at' = [at EXCEPT ![s] = n]
  /\ Send(s, <<Acquire(Lock(kind, n))>>)

\* the key s waits for
Awaited(s) == Lock(pc[s], at[s])

Waiting(s) == pc[s] \in {"node", "door"}

\* The oldest answer for the awaited key; answers for other keys stay.
Answered(s, answer) ==
  /\ Waiting(s)
  /\ replies[s][Awaited(s)] # << >>
  /\ Head(replies[s][Awaited(s)]) = answer
  /\ replies' = [replies EXCEPT ![s][Awaited(s)] = Tail(@)]

GoTo(s, place) == pc' = [pc EXCEPT ![s] = place]

\* mutant of Start: the numbers are tried from 2
StartFromTwo(s) ==
  /\ pc[s] = "off"
  /\ GoTo(s, "node")
  /\ Ask(s, "node", 2)
  /\ UNCHANGED <<locks, tty, node, replies, interrupts>>

\* Process.start(): run() asks for a node number first of all
Start(s) ==
  /\ pc[s] = "off"
  /\ GoTo(s, "node")
  /\ Ask(s, "node", 1)
  /\ UNCHANGED <<locks, tty, node, replies, interrupts>>

\* the connect thread registers the tty once the process is started
Register(s) ==
  /\ pc[s] # "off"
  /\ tty[s] = "none"
  /\ tty' = [tty EXCEPT ![s] = "registered"]
  /\ UNCHANGED <<locks, pc, at, node, outbox, replies, interrupts>>

NodeGranted(s) ==
  /\ pc[s] = "node"
  /\ Answered(s, TRUE)
  /\ node' = [node EXCEPT ![s] = at[s]]
  /\ GoTo(s, "main")
  /\ UNCHANGED <<locks, tty, at, outbox, interrupts>>

NodeRefused(s) ==
  /\ pc[s] = "node"
  /\ Answered(s, FALSE)
  /\ IF at[s] < NumNodes
     THEN Ask(s, "node", at[s] + 1) /\ pc' = pc
     ELSE GoTo(s, "main") /\ UNCHANGED <<at, outbox>>
  /\ UNCHANGED <<locks, tty, node, interrupts>>

EnterDoor(s) ==
  /\ pc[s] = "main"
  /\ GoTo(s, "door")
  /\ Ask(s, "door", 1)
  /\ UNCHANGED <<locks, tty, node, replies, interrupts>>

\* mutant of DoorGranted: the node is released before it is played on
DoorGrantedReleases(s) ==
  /\ pc[s] = "door"
  /\ Answered(s, TRUE)
  /\ GoTo(s, "play")
  /\ Send(s, <<Release(Lock("door", at[s]))>>)
  /\ UNCHANGED <<locks, tty, at, node, interrupts>>

DoorGranted(s) ==
  /\ pc[s] = "door"
  /\ Answered(s, TRUE)
  /\ GoTo(s, "play")
  /\ UNCHANGED <<locks, tty, at, node, outbox, interrupts>>

\* mutant of DoorRefused: one number too many
DoorRefusedTooFar(s) ==
  /\ pc[s] = "door"
  /\ Answered(s, FALSE)
  /\ IF at[s] <= DoorNodes
     THEN Ask(s, "door", at[s] + 1) /\ pc' = pc
     ELSE GoTo(s, "main") /\ UNCHANGED <<at, outbox>>
  /\ UNCHANGED <<locks, tty, node, interrupts>>

\* mutant of DoorRefused: it tries again until a node is free
DoorRefusedRetries(s) ==
  /\ pc[s] = "door"
  /\ Answered(s, FALSE)
  /\ Ask(s, "door", IF at[s] < DoorNodes THEN at[s] + 1 ELSE 1)
  /\ UNCHANGED <<locks, tty, pc, node, interrupts>>

\* -1: "This door has reached the maximum number of nodes"
DoorRefused(s) ==
  /\ pc[s] = "door"
  /\ Answered(s, FALSE)
  /\ IF at[s] < DoorNodes
     THEN Ask(s, "door", at[s] + 1) /\ pc' = pc
     ELSE GoTo(s, "main") /\ UNCHANGED <<at, outbox>>
  /\ UNCHANGED <<locks, tty, node, interrupts>>

LeaveDoor(s) ==
  /\ pc[s] = "play"
  /\ GoTo(s, "main")
  /\ Send(s, <<Release(Lock("door", at[s]))>>)
  /\ UNCHANGED <<locks, tty, at, node, replies, interrupts>>

\* An exception in the body of the with statement is raised again at the
\* yield of the generator: nothing is released.
DoorFails(s) ==
  /\ pc[s] = "play"
  /\ GoTo(s, "main")
  /\ UNCHANGED <<locks, tty, at, node, outbox, replies, interrupts>>

\* An event-driven gosub runs inside read_event(); what it raises unwinds
\* the wait, and the answer is left for whoever asks for that key next.
DoorInterrupted(s) ==
  /\ pc[s] = "door"
  /\ interrupts < MaxInterrupts
  /\ interrupts' = interrupts + 1
  /\ GoTo(s, "main")
  /\ UNCHANGED <<locks, tty, at, node, outbox, replies>>

\* the same while waiting for a node number, which is outside the try
\* statement of run(): the process ends
NodeInterrupted(s) ==
  /\ pc[s] = "node"
  /\ GoTo(s, "gone")
  /\ Send(s, <<Exit>>)
  /\ UNCHANGED <<locks, tty, at, node, replies, interrupts>>

\* mutant of Logoff: the session is closed twice
LogoffTwice(s) ==
  /\ pc[s] = "main"
  /\ GoTo(s, "gone")
  /\ Send(s, IF node[s] = NoNode THEN <<Exit>>
             ELSE <<Release(Lock("node", node[s])), Release(Lock("node", node[s])), Exit>>)
  /\ UNCHANGED <<locks, tty, at, node, replies, interrupts>>

\* The script stack is empty: close() releases the node, start_process
\* sends 'exit'.
Logoff(s) ==
  /\ pc[s] = "main"
  /\ GoTo(s, "gone")
  /\ Send(s, IF node[s] = NoNode THEN <<Exit>>
             ELSE <<Release(Lock("node", node[s])), Exit>>)
  /\ UNCHANGED <<locks, tty, at, node, replies, interrupts>>

\* The process reads the Disconnected it was killed with, after the answers
\* sent before it, and unwinds; its pipe is closed.
Disconnected(s) ==
  /\ tty[s] = "closed"
  /\ pc[s] \in {"node", "main", "door", "play"}
  /\ Waiting(s) => replies[s][Awaited(s)] = << >>
  /\ GoTo(s, "gone")
  /\ UNCHANGED <<locks, tty, at, node, outbox, replies, interrupts>>

\* the process dies on the spot
Crash(s) ==
  /\ pc[s] \in {"node", "main", "door", "play"}
  /\ GoTo(s, "gone")
  /\ UNCHANGED <<locks, tty, at, node, outbox, replies, interrupts>>

-----------------------------------------------------------------------------
(* The engine's side: the messages of registered sessions, one by one.     *)

Received(s, method) ==
  /\ tty[s] = "registered"
  /\ outbox[s] # << >>
  /\ Head(outbox[s]).method = method

Reply(s, k, answer) == replies' = [replies EXCEPT ![s][k] = Append(@, answer)]

\* mutant of Grantable: the sides of the comparison with the asker swapped
GrantableToOthers(s, k) == locks[k] \notin Registered \cap {s}

\* Not held, held by s itself (re-entrant), or held by a session that is
\* not registered any more.
Grantable(s, k) == locks[k] \notin Registered \ {s}

\* mutant of HandleAcquire: a refusal is logged but not sent
HandleAcquireSilent(s) ==
  /\ Received(s, "acquire")
  /\ LET k == Head(outbox[s]).key IN
       IF Grantable(s, k)
       THEN locks' = [locks EXCEPT ![k] = s] /\ Reply(s, k, TRUE)
       ELSE UNCHANGED <<locks, replies>>
  /\ outbox' = [outbox EXCEPT ![s] = Tail(@)]
  /\ UNCHANGED <<tty, pc, at, node, interrupts>>

HandleAcquire(s) ==
  /\ Received(s, "acquire")
  /\ LET k == Head(outbox[s]).key IN
       IF Grantable(s, k)
       THEN locks' = [locks EXCEPT ![k] = s] /\ Reply(s, k, TRUE)
       ELSE locks' = locks /\ Reply(s, k, FALSE)
  /\ outbox' = [outbox EXCEPT ![s] = Tail(@)]
  /\ UNCHANGED <<tty, pc, at, node, interrupts>>

\* whoever holds it
HandleRelease(s) ==
  /\ Received(s, "release")
  /\ locks' = [locks EXCEPT ![Head(outbox[s]).key] = None]
  /\ outbox' = [outbox EXCEPT ![s] = Tail(@)]
  /\ UNCHANGED <<tty, pc, at, node, replies, interrupts>>

Unregister(s) ==
  /\ tty' = [tty EXCEPT ![s] = "closed"]
  /\ outbox' = [outbox EXCEPT ![s] = << >>]
  /\ UNCHANGED <<locks, pc, at, node, replies, interrupts>>

HandleExit(s) == Received(s, "exit") /\ Unregister(s)

\* hang-up, idle timeout, shutdown or end-of-file
Kill(s) == tty[s] = "registered" /\ Unregister(s)

-----------------------------------------------------------------------------
Read(s) ==
  NodeGranted(s) \/ NodeRefused(s) \/ DoorGranted(s) \/ DoorRefused(s) \/ Disconnected(s)

Process(s) ==
  \/ Start(s) \/ Register(s)
  \/ Read(s)
  \/ EnterDoor(s) \/ LeaveDoor(s) \/ DoorFails(s) \/ DoorInterrupted(s)
  \/ NodeInterrupted(s) \/ Logoff(s) \/ Crash(s)

Engine(s) == HandleAcquire(s) \/ HandleRelease(s) \/ HandleExit(s) \/ Kill(s)

\* every session that came is gone, and the engine has seen it go
Finished ==
  /\ \A s \in Session : pc[s] = "gone" /\ tty[s] = "closed"
  /\ UNCHANGED vars

Next == (\E s \in Session : Process(s) \/ Engine(s)) \/ Finished

Spec == Init /\ [][Next]_vars

\* The engine goes on draining the pipes it polls, the connect thread ends,
\* and a process that waits reads what comes.
Fairness ==
  \A s \in Session :
    /\ WF_vars(Register(s))
    /\ WF_vars(HandleAcquire(s) \/ HandleRelease(s) \/ HandleExit(s))
    /\ WF_vars(Read(s))

FairSpec == Spec /\ Fairness

-----------------------------------------------------------------------------
(* Properties.                                                             *)

\* session.node is "a unique numeric constant for this session": two running
\* sessions the engine knows never have the same one, whatever was killed,
\* refused or released in between.
UniqueNodes ==
  \A s, t \in Registered :
    pc[s] # "gone" /\ pc[t] # "gone" /\ node[s] = node[t] /\ node[s] # NoNode => s = t

\* A release in the pipe of a registered session is of a node it holds:
\* handle_lock, which does not look at the holder, takes it from no other.
ReleasesOwnNode ==
  \A s \in Registered : \A i \in DOMAIN outbox[s] :
    outbox[s][i].method = "release" /\ outbox[s][i].key \in NodeLock
      => locks[outbox[s][i].key] = s

\* With as many numbers as sessions every session gets one, however often
\* the sessions that refuse it a number leave before it asks for the next.
NodesSuffice ==
  \A s \in Session : pc[s] \in {"main", "door", "play"} => node[s] # NoNode

\* "a unique per-door and per-session node is acquired through the bbs
\* global lock system" (doors.rst:29): no two sessions play one door node.
DoorExclusive ==
  \A s, t \in Registered :
    pc[s] = "play" /\ pc[t] = "play" /\ at[s] = at[t] => s = t

\* So it is, until a wait is interrupted.
DoorExclusiveUninterrupted == interrupts = 0 => DoorExclusive

\* The node locks implement the abstract lock service.
NodeOwner ==
  [k \in NodeLock |-> IF locks[k] \in Registered THEN locks[k] ELSE None]

NodeService == INSTANCE LockService
  WITH Key <- NodeLock, owner <- NodeOwner, alive <- Registered

ImplementsLockService == NodeService!Spec

\* A request is always answered: a session that starts does not wait for
\* ever for its node number, nor at a door.
NodeWaitEnds == \A s \in Session : pc[s] = "node" ~> pc[s] \in {"main", "gone"}
DoorWaitEnds == \A s \in Session : pc[s] = "door" ~> pc[s] # "door"
=============================================================================
