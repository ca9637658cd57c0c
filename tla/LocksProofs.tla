----------------------------- MODULE LocksProofs -----------------------------
(* Proofs about Locks, for any sessions, numbers of nodes and interrupts.  *)
EXTENDS Locks, SequenceTheorems, FiniteSetTheorems, TLAPS

(* What the operators return.                                              *)

\* A lock of a node or of a door is a key.
LEMMA LockIsKey ==
  ASSUME NEW n \in Nat
  PROVE  /\ n \in Node => Lock("node", n) \in NodeLock
         /\ n \in Door => Lock("door", n) \in DoorLock
  BY DEF Lock, NodeLock, DoorLock

\* What sessions send are messages.
LEMMA MessagesAreTyped ==
  ASSUME NEW k \in Key
  PROVE  Acquire(k) \in Message /\ Release(k) \in Message /\ Exit \in Message
  BY DEF Acquire, Release, Exit, Message

\* Send appends to one pipe, unless it is closed.
LEMMA SendAppends ==
  ASSUME NEW s \in Session, NEW messages \in Seq(Message),
         outbox \in [Session -> Seq(Message)],
         Send(s, messages)
  PROVE  /\ outbox' \in [Session -> Seq(Message)]
         /\ outbox'[s] \in {outbox[s], outbox[s] \o messages}
         /\ \A t \in Session \ {s} : outbox'[t] = outbox[t]
  <1>1. outbox[s] \o messages \in Seq(Message)
    BY ConcatProperties
  <1> QED
    BY <1>1 DEF Send

\* An answer added to, or taken from, the queue of one key.
LEMMA RepliesChange ==
  ASSUME NEW s \in Session, NEW k \in Key, NEW q \in Seq(BOOLEAN),
         replies \in [Session -> [Key -> Seq(BOOLEAN)]],
         replies' = [replies EXCEPT ![s][k] = q]
  PROVE  /\ replies' \in [Session -> [Key -> Seq(BOOLEAN)]]
         /\ replies'[s][k] = q
         /\ \A t \in Session, j \in Key :
              t # s \/ j # k => replies'[t][j] = replies[t][j]
  OBVIOUS

\* A request appends one message to one pipe.
LEMMA AskIsTyped ==
  ASSUME TypeOK, NEW s \in Session, NEW kind \in {"node", "door"}, NEW n \in Nat,
         Lock(kind, n) \in Key,
         Ask(s, kind, n)
  PROVE  /\ at' = [at EXCEPT ![s] = n]
         /\ outbox' \in [Session -> Seq(Message)]
         /\ outbox'[s] \in {outbox[s], outbox[s] \o <<Acquire(Lock(kind, n))>>}
         /\ \A t \in Session \ {s} : outbox'[t] = outbox[t]
  <1>1. <<Acquire(Lock(kind, n))>> \in Seq(Message)
    BY MessagesAreTyped
  <1>2. outbox \in [Session -> Seq(Message)] /\ Send(s, <<Acquire(Lock(kind, n))>>)
    BY DEF Ask, TypeOK
  <1>3. at' = [at EXCEPT ![s] = n]
    BY DEF Ask
  <1> QED
    BY <1>1, <1>2, <1>3, SendAppends

\* A session that waits, waits for a key.
LEMMA AwaitedIsKey ==
  ASSUME TypeOK, NEW s \in Session, Waiting(s)
  PROVE  Awaited(s) \in Key
  BY LockIsKey DEF TypeOK, Waiting, Awaited, Key, Node, Door

\* Taking an answer shortens one queue and leaves all others.
LEMMA AnsweredTakes ==
  ASSUME TypeOK, NEW s \in Session, NEW answer \in BOOLEAN, Answered(s, answer)
  PROVE  /\ Awaited(s) \in Key
         /\ replies[s][Awaited(s)] \in Seq(BOOLEAN) \ {<< >>}
         /\ Head(replies[s][Awaited(s)]) = answer
         /\ replies' \in [Session -> [Key -> Seq(BOOLEAN)]]
         /\ replies'[s][Awaited(s)] = Tail(replies[s][Awaited(s)])
         /\ \A t \in Session, j \in Key :
              t # s \/ j # Awaited(s) => replies'[t][j] = replies[t][j]
  <1>1. Awaited(s) \in Key
    BY AwaitedIsKey DEF Answered
  <1>2. replies \in [Session -> [Key -> Seq(BOOLEAN)]]
    BY DEF TypeOK
  <1>3. replies[s][Awaited(s)] \in Seq(BOOLEAN) /\ replies[s][Awaited(s)] # << >>
    BY <1>1, <1>2 DEF Answered
  <1>4. Tail(replies[s][Awaited(s)]) \in Seq(BOOLEAN)
    BY <1>3, HeadTailProperties
  <1>5. replies' = [replies EXCEPT ![s][Awaited(s)] = Tail(replies[s][Awaited(s)])]
    BY DEF Answered
  <1>6. Head(replies[s][Awaited(s)]) = answer
    BY DEF Answered
  <1> QED
    BY <1>1, <1>2, <1>3, <1>4, <1>5, <1>6, RepliesChange

-----------------------------------------------------------------------------
(* Type correctness.                                                       *)

\* The initial state is well typed.
LEMMA TypeInit == Init => TypeOK
  BY LocksAssumption DEF Init, TypeOK

\* A step of a session keeps the types.
LEMMA TypeProcess ==
  ASSUME TypeOK, NEW s \in Session, Process(s)
  PROVE  TypeOK'
  <1> USE LocksAssumption DEF Node, Door
  <1>1. Lock("node", 1) \in Key /\ Lock("door", 1) \in Key
    BY LockIsKey DEF Key
  <1>2. CASE Start(s)
    <2>1. Ask(s, "node", 1)
      BY <1>2 DEF Start
    <2>2. outbox' \in [Session -> Seq(Message)] /\ at' = [at EXCEPT ![s] = 1]
      BY <1>1, <2>1, AskIsTyped
    <2> QED
      BY <1>2, <2>2 DEF Start, GoTo, TypeOK
  <1>3. CASE Register(s)
    BY <1>3 DEF Register, TypeOK
  <1>4. CASE NodeGranted(s)
    <2>1. replies' \in [Session -> [Key -> Seq(BOOLEAN)]]
      BY <1>4, AnsweredTakes DEF NodeGranted
    <2> QED
      BY <1>4, <2>1 DEF NodeGranted, GoTo, TypeOK
  <1>5. CASE NodeRefused(s)
    <2>1. replies' \in [Session -> [Key -> Seq(BOOLEAN)]]
      BY <1>5, AnsweredTakes DEF NodeRefused
    <2>2. at[s] \in Node /\ at[s] + 1 \in Nat
      BY <1>5 DEF NodeRefused, TypeOK
    <2>3. CASE at[s] < NumNodes
      <3>1. Lock("node", at[s] + 1) \in Key
        BY <2>2, <2>3, LockIsKey DEF Key
      <3>2. Ask(s, "node", at[s] + 1) /\ pc' = pc
        BY <1>5, <2>3 DEF NodeRefused
      <3>3. outbox' \in [Session -> Seq(Message)] /\ at' = [at EXCEPT ![s] = at[s] + 1]
        BY <3>1, <3>2, <2>2, AskIsTyped
      <3> QED
        BY <1>5, <2>1, <2>2, <2>3, <3>2, <3>3 DEF NodeRefused, TypeOK
    <2>4. CASE ~(at[s] < NumNodes)
      BY <1>5, <2>1, <2>4 DEF NodeRefused, GoTo, TypeOK
    <2> QED
      BY <2>3, <2>4
  <1>6. CASE DoorGranted(s)
    <2>1. replies' \in [Session -> [Key -> Seq(BOOLEAN)]]
      BY <1>6, AnsweredTakes DEF DoorGranted
    <2> QED
      BY <1>6, <2>1 DEF DoorGranted, GoTo, TypeOK
  <1>7. CASE DoorRefused(s)
    <2>1. replies' \in [Session -> [Key -> Seq(BOOLEAN)]]
      BY <1>7, AnsweredTakes DEF DoorRefused
    <2>2. at[s] \in Door /\ at[s] + 1 \in Nat
      BY <1>7 DEF DoorRefused, TypeOK
    <2>3. CASE at[s] < DoorNodes
      <3>1. Lock("door", at[s] + 1) \in Key
        BY <2>2, <2>3, LockIsKey DEF Key
      <3>2. Ask(s, "door", at[s] + 1) /\ pc' = pc
        BY <1>7, <2>3 DEF DoorRefused
      <3>3. outbox' \in [Session -> Seq(Message)] /\ at' = [at EXCEPT ![s] = at[s] + 1]
        BY <3>1, <3>2, <2>2, AskIsTyped
      <3> QED
        BY <1>7, <2>1, <2>2, <2>3, <3>2, <3>3 DEF DoorRefused, TypeOK
    <2>4. CASE ~(at[s] < DoorNodes)
      BY <1>7, <2>1, <2>4 DEF DoorRefused, GoTo, TypeOK
    <2> QED
      BY <2>3, <2>4
  <1>8. CASE Disconnected(s) \/ Crash(s) \/ DoorFails(s) \/ DoorInterrupted(s)
    <2>1. \/ pc' = [pc EXCEPT ![s] = "gone"]
          \/ pc' = [pc EXCEPT ![s] = "main"]
      BY <1>8 DEF Disconnected, Crash, DoorFails, DoorInterrupted, GoTo
    <2>2. interrupts' \in 0 .. MaxInterrupts
      BY <1>8 DEF Disconnected, Crash, DoorFails, DoorInterrupted, TypeOK
    <2>3. UNCHANGED <<locks, tty, at, node, outbox, replies>>
      BY <1>8 DEF Disconnected, Crash, DoorFails, DoorInterrupted
    <2> QED
      BY <2>1, <2>2, <2>3 DEF TypeOK
  <1>9. CASE EnterDoor(s)
    <2>1. Ask(s, "door", 1)
      BY <1>9 DEF EnterDoor
    <2>2. outbox' \in [Session -> Seq(Message)] /\ at' = [at EXCEPT ![s] = 1]
      BY <1>1, <2>1, AskIsTyped
    <2> QED
      BY <1>9, <2>2 DEF EnterDoor, GoTo, TypeOK
  <1>10. CASE LeaveDoor(s)
    <2>1. Lock("door", at[s]) \in Key
      BY <1>10, LockIsKey DEF LeaveDoor, TypeOK, Key
    <2>2. outbox' \in [Session -> Seq(Message)]
      <3>1. <<Release(Lock("door", at[s]))>> \in Seq(Message)
        BY <2>1, MessagesAreTyped
      <3>2. Send(s, <<Release(Lock("door", at[s]))>>)
        BY <1>10 DEF LeaveDoor
      <3> QED
        BY <3>1, <3>2, SendAppends DEF TypeOK
    <2> QED
      BY <1>10, <2>2 DEF LeaveDoor, GoTo, TypeOK
  <1>11. CASE NodeInterrupted(s)
    <2>1. outbox' \in [Session -> Seq(Message)]
      <3>1. <<Exit>> \in Seq(Message) /\ Send(s, <<Exit>>)
        BY <1>1, <1>11, MessagesAreTyped DEF NodeInterrupted
      <3> QED
        BY <3>1, SendAppends DEF TypeOK
    <2> QED
      BY <1>11, <2>1 DEF NodeInterrupted, GoTo, TypeOK
  <1>12. CASE Logoff(s)
    <2>1. node[s] # NoNode => Lock("node", node[s]) \in Key
      BY LockIsKey DEF TypeOK, NoNode, Key
    <2> DEFINE last == IF node[s] = NoNode THEN <<Exit>>
                       ELSE <<Release(Lock("node", node[s])), Exit>>
    <2>2. outbox' \in [Session -> Seq(Message)]
      <3>1. last \in Seq(Message)
        BY <1>1, <2>1, MessagesAreTyped
      <3>2. Send(s, last)
        BY <1>12 DEF Logoff
      <3> QED
        BY <3>1, <3>2, SendAppends DEF TypeOK
    <2> QED
      BY <1>12, <2>2 DEF Logoff, GoTo, TypeOK
  <1> QED
    BY <1>2, <1>3, <1>4, <1>5, <1>6, <1>7, <1>8, <1>9, <1>10, <1>11, <1>12
       DEF Process, Read

\* A step of the engine keeps the types.
LEMMA TypeEngine ==
  ASSUME TypeOK, NEW s \in Session, Engine(s)
  PROVE  TypeOK'
  <1>1. CASE HandleAcquire(s)
    <2> DEFINE k == Head(outbox[s]).key
    <2>1. Head(outbox[s]) \in Message /\ Tail(outbox[s]) \in Seq(Message)
      BY <1>1 DEF HandleAcquire, Received, TypeOK
    <2>2. k \in Key
      BY <1>1, <2>1 DEF HandleAcquire, Received, Message
    <2>3. replies[s][k] \in Seq(BOOLEAN)
      BY <2>2 DEF TypeOK
    <2>4. replies' \in [Session -> [Key -> Seq(BOOLEAN)]]
      <3>1. PICK b \in BOOLEAN : Reply(s, k, b)
        BY <1>1 DEF HandleAcquire
      <3>2. Append(replies[s][k], b) \in Seq(BOOLEAN)
        BY <2>3, AppendProperties
      <3>3. replies' = [replies EXCEPT ![s][k] = Append(replies[s][k], b)]
        BY <3>1 DEF Reply
      <3> QED
        BY <2>2, <3>2, <3>3, RepliesChange DEF TypeOK
    <2>5. locks' \in [Key -> Session \cup {None}]
      BY <1>1, <2>2 DEF HandleAcquire, TypeOK
    <2> QED
      BY <1>1, <2>1, <2>4, <2>5 DEF HandleAcquire, TypeOK
  <1>2. CASE HandleRelease(s)
    <2>1. Tail(outbox[s]) \in Seq(Message)
      BY <1>2 DEF HandleRelease, Received, TypeOK
    <2> QED
      BY <1>2, <2>1 DEF HandleRelease, TypeOK
  <1>3. CASE HandleExit(s) \/ Kill(s)
    <2>1. Unregister(s)
      BY <1>3 DEF HandleExit, Kill
    <2>2. << >> \in Seq(Message)
      BY EmptySeq
    <2> QED
      BY <2>1, <2>2 DEF Unregister, TypeOK
  <1> QED
    BY <1>1, <1>2, <1>3 DEF Engine

\* Every action keeps every variable within its type.
THEOREM TypeCorrect == Spec => []TypeOK
  <1>1. TypeOK /\ [Next]_vars => TypeOK'
    <2> SUFFICES ASSUME TypeOK, [Next]_vars PROVE TypeOK'
      OBVIOUS
    <2>1. CASE vars' = vars
      BY <2>1 DEF vars, TypeOK
    <2>2. CASE Next
      BY <2>1, <2>2, TypeProcess, TypeEngine DEF Next, Finished
    <2> QED
      BY <2>1, <2>2
  <1> QED
    BY TypeInit, <1>1, PTL DEF Spec

-----------------------------------------------------------------------------
(* Unique nodes.  A session that was granted a node, or has the grant still *)
(* to read, is the holder in the engine's dictionary (NodesHeld).  This is  *)
(* not inductive on its own, because a release takes the lock from whoever  *)
(* holds it: one must know that a pipe holds a single release of a node, of *)
(* the node its session holds, and only once the process is gone.           *)

NodeRelease(m) == m.method = "release" /\ m.key \in NodeLock

Granted(s, k) == \E i \in DOMAIN replies[s][k] : replies[s][k][i] = TRUE

\* before its tty is registered, a session holds and was answered nothing
Unanswered ==
  \A s \in Session : tty[s] = "none" =>
    /\ node[s] = NoNode
    /\ \A k \in Key : locks[k] # s
    /\ \A k \in Key : replies[s][k] = << >>
    /\ \A i \in DOMAIN outbox[s] : ~NodeRelease(outbox[s][i])

NodesHeld ==
  \A s \in Session, k \in NodeLock :
    /\ tty[s] = "registered"
    /\ pc[s] # "gone"
    /\ Granted(s, k) \/ node[s] = k.n
    => locks[k] = s

ReleasesHeld ==
  \A s \in Session : \A i \in DOMAIN outbox[s] :
    tty[s] = "registered" /\ NodeRelease(outbox[s][i]) => locks[outbox[s][i].key] = s

ReleasesFinal ==
  \A s \in Session : pc[s] # "gone" =>
    \A i \in DOMAIN outbox[s] : ~NodeRelease(outbox[s][i])

OneRelease ==
  \A s \in Session : \A i, j \in DOMAIN outbox[s] :
    NodeRelease(outbox[s][i]) /\ NodeRelease(outbox[s][j]) => i = j

NodeInv ==
  TypeOK /\ Unanswered /\ NodesHeld /\ ReleasesHeld /\ ReleasesFinal /\ OneRelease

\* Two holders of one key are one session.
LEMMA NodeInvImpliesUniqueNodes == NodeInv => UniqueNodes
  <1> SUFFICES ASSUME NodeInv,
                      NEW s \in Registered, NEW t \in Registered,
                      pc[s] # "gone", pc[t] # "gone", node[s] = node[t], node[s] # NoNode
               PROVE  s = t
    BY DEF UniqueNodes
  <1>1. node[s] \in Node
    BY DEF NodeInv, TypeOK, Registered
  <1>2. Lock("node", node[s]) \in NodeLock /\ Lock("node", node[s]).n = node[s]
    BY <1>1 DEF Lock, NodeLock
  <1> QED
    BY <1>2 DEF NodeInv, NodesHeld, Registered

\* The invariant contains what ReleasesOwnNode says.
LEMMA NodeInvImpliesReleasesOwnNode == NodeInv => ReleasesOwnNode
  BY DEF NodeInv, ReleasesHeld, ReleasesOwnNode, NodeRelease, Registered

\* Nothing is held, asked or answered at first.
LEMMA NodeInvInit == Init => NodeInv
  <1> SUFFICES ASSUME Init PROVE NodeInv
    OBVIOUS
  <1>1. DOMAIN << >> = {}
    OBVIOUS
  <1>2. \A s \in Session, k \in NodeLock : node[s] # k.n
    BY DEF Init, NodeLock, Node, NoNode
  <1>3. Unanswered
    BY <1>1, LocksAssumption DEF Init, Unanswered
  <1>4. NodesHeld
    BY DEF Init, NodesHeld
  <1>5. ReleasesHeld /\ ReleasesFinal /\ OneRelease
    BY <1>1 DEF Init, ReleasesHeld, ReleasesFinal, OneRelease
  <1> QED
    BY <1>3, <1>4, <1>5, TypeInit DEF NodeInv

\* The head of a queue is its first element.
LEMMA HeadIsFirst ==
  ASSUME NEW T, NEW q \in Seq(T), q # << >>
  PROVE  1 \in DOMAIN q /\ q[1] = Head(q)
  <1>1. Len(q) \in Nat \ {0} /\ DOMAIN q = 1 .. Len(q)
    BY EmptySeq, LenProperties
  <1> QED
    BY <1>1

\* A queue that loses its head has no grant it had not.
LEMMA TailGranted ==
  ASSUME NEW q \in Seq(BOOLEAN), q # << >>,
         NEW j \in DOMAIN Tail(q), Tail(q)[j] = TRUE
  PROVE  \E i \in DOMAIN q : q[i] = TRUE
  <1>1. Tail(q)[j] = q[j + 1] /\ j + 1 \in DOMAIN q
    BY HeadTailProperties, LenProperties
  <1> QED
    BY <1>1

\* The elements of a pipe after a message is added or taken.
LEMMA AddedMessages ==
  ASSUME NEW q \in Seq(Message), NEW m \in Seq(Message), NEW i \in DOMAIN (q \o m)
  PROVE  \/ i \in DOMAIN q /\ (q \o m)[i] = q[i]
         \/ /\ i \notin DOMAIN q
            /\ i - Len(q) \in DOMAIN m
            /\ (q \o m)[i] = m[i - Len(q)]
  <1>1. i \in 1 .. Len(q) + Len(m) /\ Len(q) \in Nat /\ Len(m) \in Nat
    BY ConcatProperties, LenProperties
  <1>2. (q \o m)[i] = IF i <= Len(q) THEN q[i] ELSE m[i - Len(q)]
    BY <1>1, ConcatProperties
  <1>3. DOMAIN q = 1 .. Len(q) /\ DOMAIN m = 1 .. Len(m)
    BY LenProperties
  <1> QED
    BY <1>1, <1>2, <1>3

\* What remains when the head is taken was there, one place later.
LEMMA RemainingMessages ==
  ASSUME NEW q \in Seq(Message), q # << >>, NEW i \in DOMAIN Tail(q)
  PROVE  i + 1 \in DOMAIN q /\ i \in Nat \ {0} /\ Tail(q)[i] = q[i + 1]
  BY HeadTailProperties, LenProperties

\* A step of a session that gets no node and releases none: it may append a
\* message, take an answer or leave.
Quiet(s) ==
  /\ UNCHANGED <<locks, tty, node>>
  /\ \A t \in Session \ {s} : pc'[t] = pc[t] /\ outbox'[t] = outbox[t]
  /\ pc[s] = "gone" => pc'[s] = "gone"
  /\ \/ outbox'[s] = outbox[s]
     \/ \E m \in Message : ~NodeRelease(m) /\ outbox'[s] = outbox[s] \o <<m>>
  /\ \A t \in Session, k \in Key :
       \/ replies'[t][k] = replies[t][k]
       \/ replies[t][k] # << >> /\ replies'[t][k] = Tail(replies[t][k])

\* A quiet step sends no release of a node.
LEMMA QuietMessages ==
  ASSUME TypeOK, NEW s \in Session, Quiet(s), NEW t \in Session, NEW i \in DOMAIN outbox'[t]
  PROVE  \/ i \in DOMAIN outbox[t] /\ outbox'[t][i] = outbox[t][i]
         \/ ~NodeRelease(outbox'[t][i])
  <1>1. CASE outbox'[t] = outbox[t]
    BY <1>1
  <1>2. CASE outbox'[t] # outbox[t]
    <2>1. PICK m \in Message : ~NodeRelease(m) /\ outbox'[t] = outbox[t] \o <<m>>
      BY <1>2 DEF Quiet
    <2>2. outbox[t] \in Seq(Message) /\ <<m>> \in Seq(Message)
      BY DEF TypeOK
    <2>3. \A n \in DOMAIN <<m>> : <<m>>[n] = m
      OBVIOUS
    <2> QED
      BY <2>1, <2>2, <2>3, AddedMessages
  <1> QED
    BY <1>1, <1>2

\* A quiet step brings a session no grant.
LEMMA QuietGrants ==
  ASSUME TypeOK, NEW s \in Session, Quiet(s), NEW t \in Session, NEW k \in Key, Granted(t, k)'
  PROVE  Granted(t, k)
  <1>1. PICK j \in DOMAIN replies'[t][k] : replies'[t][k][j] = TRUE
    BY DEF Granted
  <1>2. CASE replies'[t][k] = replies[t][k]
    BY <1>1, <1>2 DEF Granted
  <1>3. CASE replies[t][k] # << >> /\ replies'[t][k] = Tail(replies[t][k])
    <2>1. replies[t][k] \in Seq(BOOLEAN)
      BY DEF TypeOK
    <2> QED
      BY <1>1, <1>3, <2>1, TailGranted DEF Granted
  <1> QED
    BY <1>2, <1>3 DEF Quiet

\* A quiet step preserves the invariant.
LEMMA QuietPreserves ==
  ASSUME NodeInv, NEW s \in Session, Quiet(s), TypeOK'
  PROVE  NodeInv'
  <1>1. TypeOK
    BY DEF NodeInv
  <1>2. Unanswered'
    <2> SUFFICES ASSUME NEW t \in Session, tty'[t] = "none"
                 PROVE  /\ node'[t] = NoNode
                        /\ \A k \in Key : locks'[k] # t
                        /\ \A k \in Key : replies'[t][k] = << >>
                        /\ \A i \in DOMAIN outbox'[t] : ~NodeRelease(outbox'[t][i])
      BY DEF Unanswered, NodeRelease
    <2>1. /\ node[t] = NoNode
          /\ \A k \in Key : locks[k] # t
          /\ \A k \in Key : replies[t][k] = << >>
          /\ \A i \in DOMAIN outbox[t] : ~NodeRelease(outbox[t][i])
      BY DEF NodeInv, Unanswered, Quiet
    <2>2. node'[t] = NoNode /\ \A k \in Key : locks'[k] # t /\ replies'[t][k] = << >>
      BY <2>1 DEF Quiet
    <2>3. \A i \in DOMAIN outbox'[t] : ~NodeRelease(outbox'[t][i])
      BY <1>1, <2>1, QuietMessages
    <2> QED
      BY <2>2, <2>3
  <1>3. NodesHeld'
    <2> SUFFICES ASSUME NEW t \in Session, NEW k \in NodeLock,
                        tty'[t] = "registered", pc'[t] # "gone",
                        Granted(t, k)' \/ node'[t] = k.n
                 PROVE  locks'[k] = t
      BY DEF NodesHeld
    <2>1. Granted(t, k) \/ node[t] = k.n
      BY <1>1, QuietGrants DEF Quiet, Key
    <2> QED
      BY <2>1 DEF NodeInv, NodesHeld, Quiet
  <1>4. ReleasesHeld'
    <2> SUFFICES ASSUME NEW t \in Session, NEW i \in DOMAIN outbox'[t],
                        tty'[t] = "registered", NodeRelease(outbox'[t][i])
                 PROVE  locks'[outbox'[t][i].key] = t
      BY DEF ReleasesHeld, NodeRelease
    <2>1. i \in DOMAIN outbox[t] /\ outbox'[t][i] = outbox[t][i]
      BY <1>1, QuietMessages
    <2> QED
      BY <2>1 DEF NodeInv, ReleasesHeld, Quiet
  <1>5. ReleasesFinal'
    <2> SUFFICES ASSUME NEW t \in Session, pc'[t] # "gone", NEW i \in DOMAIN outbox'[t],
                        NodeRelease(outbox'[t][i])
                 PROVE  FALSE
      BY DEF ReleasesFinal, NodeRelease
    <2>1. i \in DOMAIN outbox[t] /\ outbox'[t][i] = outbox[t][i]
      BY <1>1, QuietMessages
    <2> QED
      BY <2>1 DEF NodeInv, ReleasesFinal, Quiet
  <1>6. OneRelease'
    <2> SUFFICES ASSUME NEW t \in Session, NEW i \in DOMAIN outbox'[t], NEW j \in DOMAIN outbox'[t],
                        NodeRelease(outbox'[t][i]), NodeRelease(outbox'[t][j])
                 PROVE  i = j
      BY DEF OneRelease, NodeRelease
    <2>1. /\ i \in DOMAIN outbox[t] /\ outbox'[t][i] = outbox[t][i]
          /\ j \in DOMAIN outbox[t] /\ outbox'[t][j] = outbox[t][j]
      BY <1>1, QuietMessages
    <2> QED
      BY <2>1 DEF NodeInv, OneRelease
  <1> QED
    BY <1>2, <1>3, <1>4, <1>5, <1>6 DEF NodeInv

\* Each action of a session is quiet, but for Register, NodeGranted and the
\* Logoff of a session that has a node.
LEMMA QuietActions ==
  ASSUME TypeOK, NEW s \in Session,
         \/ Start(s) \/ NodeRefused(s) \/ EnterDoor(s) \/ DoorGranted(s)
         \/ DoorRefused(s) \/ LeaveDoor(s) \/ DoorFails(s) \/ DoorInterrupted(s)
         \/ NodeInterrupted(s) \/ Disconnected(s) \/ Crash(s)
         \/ Logoff(s) /\ node[s] = NoNode
  PROVE  Quiet(s)
  <1> DEFINE MaySend(m) == outbox'[s] \in {outbox[s], outbox[s] \o <<m>>}
             OthersSame == \A t \in Session \ {s} : outbox'[t] = outbox[t]
             AnswerTaken == \A t \in Session, k \in Key :
                              \/ replies'[t][k] = replies[t][k]
                              \/ replies[t][k] # << >> /\ replies'[t][k] = Tail(replies[t][k])
  <1>1. \A k \in Key : /\ Acquire(k) \in Message /\ ~NodeRelease(Acquire(k))
                       /\ Release(k) \in Message
                       /\ Exit \in Message /\ ~NodeRelease(Exit)
    BY MessagesAreTyped DEF NodeRelease, Acquire, Exit
  <1>2. \A n \in Node : Lock("node", n) \in Key
    BY LockIsKey DEF Key, Node
  <1>3. \A n \in Door : Lock("door", n) \in Key /\ Lock("door", n) \notin NodeLock
    <2>1. \A n \in Door : Lock("door", n) \in Key
      BY LockIsKey DEF Key, Door
    <2>2. \A n \in Door : Lock("door", n).kind = "door"
      BY DEF Lock
    <2>3. \A k \in NodeLock : k.kind = "node"
      BY DEF NodeLock
    <2> QED
      BY <2>1, <2>2, <2>3
  <1>4. 1 \in Node /\ 1 \in Door
    BY LocksAssumption DEF Node, Door
  <1>5. ASSUME NEW kind \in {"node", "door"}, NEW n \in Nat,
               Lock(kind, n) \in Key, Ask(s, kind, n)
        PROVE  OthersSame /\ \E m \in Message : ~NodeRelease(m) /\ MaySend(m)
    BY <1>1, <1>5, AskIsTyped
  <1>6. ASSUME NEW m \in Message, Send(s, <<m>>)
        PROVE  OthersSame /\ MaySend(m)
    <2>1. <<m>> \in Seq(Message)
      OBVIOUS
    <2> QED
      BY <1>6, <2>1, SendAppends DEF TypeOK
  <1>7. ASSUME NEW answer \in BOOLEAN, Answered(s, answer)
        PROVE  AnswerTaken
    BY <1>7, AnsweredTakes
  <1>8. pc \in [Session -> {"off", "node", "main", "door", "play", "gone"}]
    BY DEF TypeOK
  <1>9. CASE Start(s)
    <2>1. OthersSame /\ \E m \in Message : ~NodeRelease(m) /\ MaySend(m)
      BY <1>2, <1>4, <1>5, <1>9 DEF Start
    <2> QED
      BY <1>8, <1>9, <2>1 DEF Start, GoTo, Quiet
  <1>10. CASE EnterDoor(s)
    <2>1. OthersSame /\ \E m \in Message : ~NodeRelease(m) /\ MaySend(m)
      BY <1>3, <1>4, <1>5, <1>10 DEF EnterDoor
    <2> QED
      BY <1>8, <1>10, <2>1 DEF EnterDoor, GoTo, Quiet
  <1>11. CASE NodeRefused(s)
    <2>1. AnswerTaken
      BY <1>7, <1>11 DEF NodeRefused
    <2>2. at[s] \in Nat /\ at[s] + 1 \in Nat /\ NumNodes \in Nat
      BY LocksAssumption DEF TypeOK
    <2>3. CASE at[s] < NumNodes
      <3>1. at[s] + 1 \in Node
        BY <2>2, <2>3 DEF Node
      <3>2. OthersSame /\ \E m \in Message : ~NodeRelease(m) /\ MaySend(m)
        BY <1>2, <1>5, <1>11, <2>2, <2>3, <3>1 DEF NodeRefused
      <3> QED
        BY <1>8, <1>11, <2>1, <2>3, <3>2 DEF NodeRefused, Quiet
    <2>4. CASE ~(at[s] < NumNodes)
      BY <1>8, <1>11, <2>1, <2>4 DEF NodeRefused, GoTo, Quiet
    <2> QED
      BY <2>3, <2>4
  <1>12. CASE DoorRefused(s)
    <2>1. AnswerTaken
      BY <1>7, <1>12 DEF DoorRefused
    <2>2. at[s] \in Nat /\ at[s] + 1 \in Nat /\ DoorNodes \in Nat
      BY LocksAssumption DEF TypeOK
    <2>3. CASE at[s] < DoorNodes
      <3>1. at[s] + 1 \in Door
        BY <2>2, <2>3 DEF Door
      <3>2. OthersSame /\ \E m \in Message : ~NodeRelease(m) /\ MaySend(m)
        BY <1>3, <1>5, <1>12, <2>2, <2>3, <3>1 DEF DoorRefused
      <3> QED
        BY <1>8, <1>12, <2>1, <2>3, <3>2 DEF DoorRefused, Quiet
    <2>4. CASE ~(at[s] < DoorNodes)
      BY <1>8, <1>12, <2>1, <2>4 DEF DoorRefused, GoTo, Quiet
    <2> QED
      BY <2>3, <2>4
  <1>13. CASE DoorGranted(s)
    <2>1. AnswerTaken
      BY <1>7, <1>13 DEF DoorGranted
    <2> QED
      BY <1>8, <1>13, <2>1 DEF DoorGranted, GoTo, Quiet
  <1>14. CASE LeaveDoor(s)
    <2>1. at[s] \in Door
      BY <1>14 DEF LeaveDoor, TypeOK
    <2>2. Release(Lock("door", at[s])) \in Message /\ ~NodeRelease(Release(Lock("door", at[s])))
      BY <1>1, <1>3, <2>1 DEF NodeRelease, Release
    <2>3. OthersSame /\ MaySend(Release(Lock("door", at[s])))
      BY <1>6, <1>14, <2>2 DEF LeaveDoor
    <2> QED
      BY <1>8, <1>14, <2>2, <2>3 DEF LeaveDoor, GoTo, Quiet
  <1>15. CASE NodeInterrupted(s)
    <2>1. Exit \in Message /\ ~NodeRelease(Exit)
      BY <1>1, <1>2, <1>4
    <2>2. OthersSame /\ MaySend(Exit)
      BY <1>6, <1>15, <2>1 DEF NodeInterrupted
    <2> QED
      BY <1>8, <1>15, <2>1, <2>2 DEF NodeInterrupted, GoTo, Quiet
  <1>16. CASE Logoff(s) /\ node[s] = NoNode
    <2>1. Exit \in Message /\ ~NodeRelease(Exit)
      BY <1>1, <1>2, <1>4
    <2>2. OthersSame /\ MaySend(Exit)
      BY <1>6, <1>16, <2>1 DEF Logoff
    <2> QED
      BY <1>8, <1>16, <2>1, <2>2 DEF Logoff, GoTo, Quiet
  <1>17. CASE DoorFails(s) \/ DoorInterrupted(s) \/ Disconnected(s) \/ Crash(s)
    <2>1. \/ pc[s] # "gone" /\ pc' = [pc EXCEPT ![s] = "main"]
          \/ pc' = [pc EXCEPT ![s] = "gone"]
      BY <1>17 DEF DoorFails, DoorInterrupted, Disconnected, Crash, GoTo
    <2>2. UNCHANGED <<locks, tty, node, outbox, replies>>
      BY <1>17 DEF DoorFails, DoorInterrupted, Disconnected, Crash
    <2> QED
      BY <1>8, <2>1, <2>2 DEF Quiet
  <1> QED
    BY <1>9, <1>10, <1>11, <1>12, <1>13, <1>14, <1>15, <1>16, <1>17

\* Registering a tty preserves the invariant: an unregistered session was answered nothing.
LEMMA RegisterPreserves ==
  ASSUME NodeInv, NEW s \in Session, Register(s), TypeOK'
  PROVE  NodeInv'
  <1>1. /\ tty[s] = "none" /\ tty'[s] = "registered"
        /\ \A t \in Session \ {s} : tty'[t] = tty[t]
        /\ UNCHANGED <<locks, pc, node, outbox, replies>>
    BY DEF Register, NodeInv, TypeOK
  <1>2. /\ node[s] = NoNode
        /\ \A k \in Key : replies[s][k] = << >>
        /\ \A i \in DOMAIN outbox[s] : ~NodeRelease(outbox[s][i])
    BY <1>1 DEF NodeInv, Unanswered
  <1>3. Unanswered'
    BY <1>1 DEF NodeInv, Unanswered, NodeRelease
  <1>4. NodesHeld'
    <2>1. \A k \in NodeLock : ~Granted(s, k) /\ node[s] # k.n
      BY <1>2 DEF Granted, NodeLock, Key, Node, NoNode
    <2> QED
      BY <1>1, <2>1 DEF NodeInv, NodesHeld, Granted
  <1>5. ReleasesHeld'
    BY <1>1, <1>2 DEF NodeInv, ReleasesHeld, NodeRelease
  <1>6. ReleasesFinal' /\ OneRelease'
    BY <1>1 DEF NodeInv, ReleasesFinal, OneRelease, NodeRelease
  <1> QED
    BY <1>3, <1>4, <1>5, <1>6 DEF NodeInv

\* Taking a granted number preserves the invariant: its session is the holder.
LEMMA NodeGrantedPreserves ==
  ASSUME NodeInv, NEW s \in Session, NodeGranted(s), TypeOK'
  PROVE  NodeInv'
  <1> DEFINE k == Awaited(s)
  <1>1. TypeOK
    BY DEF NodeInv
  <1>2. /\ k \in NodeLock /\ k.n = at[s] /\ at[s] \in Node
    BY <1>1, LockIsKey DEF NodeGranted, TypeOK, Awaited, Lock, NodeLock, Node
  <1>3. /\ replies[s][k] \in Seq(BOOLEAN) \ {<< >>}
        /\ Head(replies[s][k]) = TRUE
        /\ replies'[s][k] = Tail(replies[s][k])
        /\ \A t \in Session, j \in Key : t # s \/ j # k => replies'[t][j] = replies[t][j]
    BY <1>1, AnsweredTakes DEF NodeGranted
  <1>4. Granted(s, k)
    <2>1. 1 \in DOMAIN replies[s][k] /\ replies[s][k][1] = TRUE
      <3> HIDE DEF k
      <3> QED
        BY <1>3, HeadIsFirst
    <2> QED
      BY <2>1 DEF Granted
  <1>5. /\ UNCHANGED <<locks, tty, outbox>>
        /\ node'[s] = at[s] /\ pc[s] = "node" /\ pc'[s] = "main"
        /\ \A t \in Session \ {s} : node'[t] = node[t] /\ pc'[t] = pc[t]
    BY <1>1 DEF NodeGranted, GoTo, TypeOK
  <1>6. tty[s] # "none"
    BY <1>2, <1>3 DEF NodeInv, Unanswered, Key
  <1>7. Unanswered'
    <2> SUFFICES ASSUME NEW t \in Session, tty'[t] = "none"
                 PROVE  /\ node'[t] = NoNode
                        /\ \A j \in Key : locks'[j] # t
                        /\ \A j \in Key : replies'[t][j] = << >>
                        /\ \A i \in DOMAIN outbox'[t] : ~NodeRelease(outbox'[t][i])
      BY DEF Unanswered, NodeRelease
    <2>1. t # s
      BY <1>5, <1>6
    <2>2. \A j \in Key : replies'[t][j] = replies[t][j]
      BY <1>3, <2>1
    <2>3. /\ tty[t] = "none" /\ node'[t] = node[t]
          /\ locks' = locks /\ outbox' = outbox
      BY <1>5, <2>1
    <2> QED
      BY <2>2, <2>3 DEF NodeInv, Unanswered
  <1>8. NodesHeld'
    <2> SUFFICES ASSUME NEW t \in Session, NEW j \in NodeLock,
                        tty'[t] = "registered", pc'[t] # "gone",
                        Granted(t, j)' \/ node'[t] = j.n
                 PROVE  locks'[j] = t
      BY DEF NodesHeld
    <2>1. CASE Granted(t, j)'
      <3>1. PICK i \in DOMAIN replies'[t][j] : replies'[t][j][i] = TRUE
        BY <2>1 DEF Granted
      <3>2. Granted(t, j)
        <4>1. CASE t # s \/ j # k
          BY <1>3, <3>1, <4>1 DEF Granted, Key
        <4>2. CASE t = s /\ j = k
          BY <1>4, <4>2
        <4> QED
          BY <4>1, <4>2
      <3> QED
        BY <1>5, <3>2 DEF NodeInv, NodesHeld
    <2>2. CASE t = s /\ node'[t] = j.n
      <3>1. j = k
        BY <1>2, <1>5, <2>2 DEF NodeLock
      <3> QED
        BY <1>2, <1>4, <1>5, <2>2, <3>1 DEF NodeInv, NodesHeld
    <2>3. CASE t # s /\ node'[t] = j.n
      BY <1>5, <2>3 DEF NodeInv, NodesHeld
    <2> QED
      BY <2>1, <2>2, <2>3
  <1>9. ReleasesHeld' /\ ReleasesFinal' /\ OneRelease'
    BY <1>5 DEF NodeInv, ReleasesHeld, ReleasesFinal, OneRelease, NodeRelease
  <1> QED
    BY <1>7, <1>8, <1>9 DEF NodeInv

\* The one step that releases a node.
LEMMA LogoffPreserves ==
  ASSUME NodeInv, NEW s \in Session, Logoff(s), node[s] # NoNode, TypeOK'
  PROVE  NodeInv'
  <1> DEFINE k == Lock("node", node[s])
             last == <<Release(k), Exit>>
  <1>1. TypeOK
    BY DEF NodeInv
  <1>2. k \in NodeLock /\ k.n = node[s] /\ k \in Key
    BY <1>1, LockIsKey DEF TypeOK, Lock, NodeLock, Node, NoNode, Key
  <1>3. Release(k) \in Message /\ Release(k).key = k /\ Exit \in Message
    BY <1>2, MessagesAreTyped DEF Release
  <1>4. /\ last \in Seq(Message) /\ DOMAIN last = {1, 2}
        /\ last[1].key = k /\ ~NodeRelease(last[2])
    BY <1>3 DEF NodeRelease, Exit
  <1>5. /\ UNCHANGED <<locks, tty, node, replies>>
        /\ pc[s] = "main" /\ pc'[s] = "gone"
        /\ \A t \in Session \ {s} : pc'[t] = pc[t] /\ outbox'[t] = outbox[t]
        /\ outbox'[s] \in {outbox[s], outbox[s] \o last}
    <2>1. Send(s, last)
      BY DEF Logoff
    <2>2. outbox \in [Session -> Seq(Message)]
      BY <1>1 DEF TypeOK
    <2>3. /\ outbox'[s] \in {outbox[s], outbox[s] \o last}
          /\ \A t \in Session \ {s} : outbox'[t] = outbox[t]
      BY <1>4, <2>1, <2>2, SendAppends
    <2> QED
      BY <1>1, <2>3 DEF Logoff, GoTo, TypeOK
  <1>6. \A i \in DOMAIN outbox[s] : ~NodeRelease(outbox[s][i])
    BY <1>5 DEF NodeInv, ReleasesFinal
  <1>7. \A i \in DOMAIN outbox'[s] :
          NodeRelease(outbox'[s][i]) => i = Len(outbox[s]) + 1 /\ outbox'[s][i].key = k
    <2> SUFFICES ASSUME NEW i \in DOMAIN outbox'[s], NodeRelease(outbox'[s][i])
                 PROVE  i = Len(outbox[s]) + 1 /\ outbox'[s][i].key = k
      OBVIOUS
    <2>1. outbox'[s] = outbox[s] \o last
      BY <1>5, <1>6
    <2>2. outbox[s] \in Seq(Message) /\ Len(outbox[s]) \in Nat /\ i \in Nat
      BY <1>1, <2>1, <1>4, LenProperties, ConcatProperties DEF TypeOK
    <2>3. i - Len(outbox[s]) \in {1, 2} /\ outbox'[s][i] = last[i - Len(outbox[s])]
      BY <1>4, <1>6, <2>1, <2>2, AddedMessages
    <2>4. i - Len(outbox[s]) = 1
      BY <1>4, <2>3
    <2> QED
      BY <1>4, <2>2, <2>3, <2>4
  <1>8. tty[s] # "none"
    BY DEF NodeInv, Unanswered
  <1>9. Unanswered'
    BY <1>5, <1>8 DEF NodeInv, Unanswered, NodeRelease
  <1>10. NodesHeld'
    BY <1>5 DEF NodeInv, NodesHeld, Granted
  <1>11. ReleasesHeld'
    <2> SUFFICES ASSUME NEW t \in Session, NEW i \in DOMAIN outbox'[t],
                        tty'[t] = "registered", NodeRelease(outbox'[t][i])
                 PROVE  locks'[outbox'[t][i].key] = t
      BY DEF ReleasesHeld, NodeRelease
    <2>1. CASE t = s
      BY <1>2, <1>5, <1>7, <2>1 DEF NodeInv, NodesHeld
    <2>2. CASE t # s
      BY <1>5, <2>2 DEF NodeInv, ReleasesHeld
    <2> QED
      BY <2>1, <2>2
  <1>12. ReleasesFinal'
    BY <1>5 DEF NodeInv, ReleasesFinal, NodeRelease
  <1>13. OneRelease'
    <2> SUFFICES ASSUME NEW t \in Session, NEW i \in DOMAIN outbox'[t], NEW j \in DOMAIN outbox'[t],
                        NodeRelease(outbox'[t][i]), NodeRelease(outbox'[t][j])
                 PROVE  i = j
      BY DEF OneRelease, NodeRelease
    <2>1. CASE t = s
      BY <1>7, <2>1
    <2>2. CASE t # s
      BY <1>5, <2>2 DEF NodeInv, OneRelease
    <2> QED
      BY <2>1, <2>2
  <1> QED
    BY <1>9, <1>10, <1>11, <1>12, <1>13 DEF NodeInv

(* The engine's steps.                                                     *)

\* The engine takes the first message of a pipe.
Taken(s) == outbox[s] # << >> /\ outbox' = [outbox EXCEPT ![s] = Tail(@)]

\* What the engine leaves in a pipe was there before it took the head.
LEMMA TakenMessages ==
  ASSUME TypeOK, NEW s \in Session, Taken(s),
         NEW t \in Session, NEW i \in DOMAIN outbox'[t]
  PROVE  /\ t # s => i \in DOMAIN outbox[t] /\ outbox'[t][i] = outbox[t][i]
         /\ t = s => /\ i \in Nat \ {0}
                     /\ i + 1 \in DOMAIN outbox[t]
                     /\ outbox'[t][i] = outbox[t][i + 1]
         /\ \E j \in DOMAIN outbox[t] : outbox'[t][i] = outbox[t][j]
  <1>1. outbox[s] \in Seq(Message) /\ outbox[s] # << >> /\ outbox'[s] = Tail(outbox[s])
    BY DEF TypeOK, Taken
  <1>2. t # s => outbox'[t] = outbox[t]
    BY DEF TypeOK, Taken
  <1> QED
    BY <1>1, <1>2, RemainingMessages

\* What handle_lock does to the messages of the pipes, whoever asks.
LEMMA TakenPreserves ==
  ASSUME NodeInv, NEW s \in Session, Taken(s), pc' = pc
  PROVE  ReleasesFinal' /\ OneRelease'
  <1>1. TypeOK
    BY DEF NodeInv
  <1>2. ReleasesFinal'
    <2> SUFFICES ASSUME NEW t \in Session, pc'[t] # "gone", NEW i \in DOMAIN outbox'[t],
                        NodeRelease(outbox'[t][i])
                 PROVE  FALSE
      BY DEF ReleasesFinal, NodeRelease
    <2>1. \E j \in DOMAIN outbox[t] : outbox'[t][i] = outbox[t][j]
      BY <1>1, TakenMessages
    <2> QED
      BY <2>1 DEF NodeInv, ReleasesFinal
  <1>3. OneRelease'
    <2> SUFFICES ASSUME NEW t \in Session, NEW i \in DOMAIN outbox'[t], NEW j \in DOMAIN outbox'[t],
                        NodeRelease(outbox'[t][i]), NodeRelease(outbox'[t][j])
                 PROVE  i = j
      BY DEF OneRelease, NodeRelease
    <2>1. CASE t = s
      <3>1. /\ i \in Nat /\ i + 1 \in DOMAIN outbox[t] /\ outbox'[t][i] = outbox[t][i + 1]
            /\ j \in Nat /\ j + 1 \in DOMAIN outbox[t] /\ outbox'[t][j] = outbox[t][j + 1]
        BY <1>1, <2>1, TakenMessages
      <3>2. i + 1 = j + 1
        BY <3>1 DEF NodeInv, OneRelease
      <3> QED
        BY <3>1, <3>2
    <2>2. CASE t # s
      <3>1. /\ i \in DOMAIN outbox[t] /\ outbox'[t][i] = outbox[t][i]
            /\ j \in DOMAIN outbox[t] /\ outbox'[t][j] = outbox[t][j]
        BY <1>1, <2>2, TakenMessages
      <3> QED
        BY <3>1 DEF NodeInv, OneRelease
    <2> QED
      BY <2>1, <2>2
  <1> QED
    BY <1>2, <1>3

\* A lock that a registered session holds is granted to no other.
LEMMA AcquirePreserves ==
  ASSUME NodeInv, NEW s \in Session, HandleAcquire(s), TypeOK'
  PROVE  NodeInv'
  <1> DEFINE k == Head(outbox[s]).key
  <1>1. TypeOK
    BY DEF NodeInv
  <1>2. /\ tty[s] = "registered" /\ outbox[s] # << >> /\ Taken(s)
        /\ UNCHANGED <<tty, pc, node>>
    BY DEF HandleAcquire, Received, Taken
  <1>3. k \in Key
    <2>1. outbox[s] \in Seq(Message) /\ outbox[s] # << >>
      BY <1>1, <1>2 DEF TypeOK
    <2>2. Head(outbox[s]) \in Message /\ Head(outbox[s]).method = "acquire"
      BY <2>1, HeadTailProperties DEF HandleAcquire, Received
    <2> QED
      BY <2>2 DEF Message
  <1>4. PICK answer \in BOOLEAN :
          /\ Reply(s, k, answer)
          /\ answer = TRUE => Grantable(s, k) /\ locks' = [locks EXCEPT ![k] = s]
          /\ answer = FALSE => locks' = locks
    BY DEF HandleAcquire
  <1>5. \A t \in Registered, j \in Key : locks[j] = t => locks'[j] = t
    <2>1. \A t \in Registered : locks[k] = t => locks'[k] = t
      BY <1>1, <1>3, <1>4 DEF Grantable, TypeOK
    <2>2. \A j \in Key : j # k => locks'[j] = locks[j]
      BY <1>1, <1>3, <1>4 DEF TypeOK
    <2> QED
      BY <2>1, <2>2
  <1>6. /\ replies[s][k] \in Seq(BOOLEAN)
        /\ replies'[s][k] = Append(replies[s][k], answer)
        /\ \A t \in Session, j \in Key : t # s \/ j # k => replies'[t][j] = replies[t][j]
    <2>1. replies[s][k] \in Seq(BOOLEAN)
      BY <1>1, <1>3 DEF TypeOK
    <2>2. Append(replies[s][k], answer) \in Seq(BOOLEAN)
      BY <2>1, AppendProperties
    <2>3. replies' = [replies EXCEPT ![s][k] = Append(replies[s][k], answer)]
      BY <1>4 DEF Reply
    <2>4. replies \in [Session -> [Key -> Seq(BOOLEAN)]]
      BY <1>1 DEF TypeOK
    <2> HIDE DEF k
    <2> QED
      BY <1>3, <2>1, <2>2, <2>3, <2>4, RepliesChange
  <1>7. Unanswered'
    <2> SUFFICES ASSUME NEW t \in Session, tty'[t] = "none"
                 PROVE  /\ node'[t] = NoNode
                        /\ \A j \in Key : locks'[j] # t
                        /\ \A j \in Key : replies'[t][j] = << >>
                        /\ \A i \in DOMAIN outbox'[t] : ~NodeRelease(outbox'[t][i])
      BY DEF Unanswered, NodeRelease
    <2>1. t # s /\ tty[t] = "none"
      BY <1>2
    <2>2. \A j \in Key : locks'[j] # t
      BY <1>1, <1>3, <1>4, <2>1 DEF NodeInv, Unanswered, TypeOK
    <2> QED
      BY <1>1, <1>2, <1>6, <2>1, <2>2 DEF NodeInv, Unanswered, TypeOK, Taken
  <1>8. NodesHeld'
    <2> SUFFICES ASSUME NEW t \in Session, NEW j \in NodeLock,
                        tty'[t] = "registered", pc'[t] # "gone",
                        Granted(t, j)' \/ node'[t] = j.n
                 PROVE  locks'[j] = t
      BY DEF NodesHeld
    <2>1. t \in Registered /\ j \in Key
      BY <1>2 DEF Registered, Key
    <2>2. CASE Granted(t, j) \/ node'[t] = j.n
      BY <1>2, <1>5, <2>1, <2>2 DEF NodeInv, NodesHeld
    <2>3. CASE Granted(t, j)' /\ ~Granted(t, j)
      <3>1. t = s /\ j = k
        BY <1>6, <2>1, <2>3 DEF Granted
      <3>2. answer = TRUE
        <4>1. PICK i \in DOMAIN replies'[s][k] : replies'[s][k][i] = TRUE
          BY <2>3, <3>1 DEF Granted
        <4>2. \A i2 \in DOMAIN replies[s][k] : replies[s][k][i2] # TRUE
          BY <2>3, <3>1 DEF Granted
        <4> HIDE DEF k
        <4>3. /\ DOMAIN replies[s][k] = 1 .. Len(replies[s][k])
              /\ Len(replies[s][k]) \in Nat
              /\ DOMAIN replies'[s][k] = 1 .. Len(replies[s][k]) + 1
          BY <1>6, LenProperties, AppendProperties
        <4>4. i \in DOMAIN replies[s][k] => replies'[s][k][i] = replies[s][k][i]
          BY <1>6, <4>3, AppendProperties
        <4>5. i \notin DOMAIN replies[s][k]
          BY <4>1, <4>2, <4>4
        <4>6. i = Len(replies[s][k]) + 1
          BY <4>1, <4>3, <4>5
        <4> QED
          BY <1>6, <4>1, <4>6, AppendProperties
      <3> QED
        BY <1>1, <1>3, <1>4, <3>1, <3>2 DEF TypeOK
    <2> QED
      BY <2>2, <2>3
  <1>9. ReleasesHeld'
    <2> SUFFICES ASSUME NEW t \in Session, NEW i \in DOMAIN outbox'[t],
                        tty'[t] = "registered", NodeRelease(outbox'[t][i])
                 PROVE  locks'[outbox'[t][i].key] = t
      BY DEF ReleasesHeld, NodeRelease
    <2>1. PICK j \in DOMAIN outbox[t] : outbox'[t][i] = outbox[t][j]
      BY <1>1, <1>2, TakenMessages
    <2>2. outbox[t][j].key \in Key /\ t \in Registered
      BY <1>2, <2>1 DEF NodeRelease, Key, Registered
    <2>3. locks[outbox[t][j].key] = t
      BY <1>2, <2>1 DEF NodeInv, ReleasesHeld
    <2> QED
      BY <1>5, <2>1, <2>2, <2>3
  <1>10. ReleasesFinal' /\ OneRelease'
    BY <1>2, TakenPreserves
  <1> QED
    BY <1>7, <1>8, <1>9, <1>10 DEF NodeInv

\* A release frees a node that its sender held, so no claim of another
\* session is lost with it.
LEMMA ReleasePreserves ==
  ASSUME NodeInv, NEW s \in Session, HandleRelease(s), TypeOK'
  PROVE  NodeInv'
  <1> DEFINE k == Head(outbox[s]).key
  <1>1. TypeOK
    BY DEF NodeInv
  <1>2. /\ tty[s] = "registered" /\ outbox[s] # << >>
        /\ Taken(s)
        /\ locks' = [locks EXCEPT ![k] = None]
        /\ Head(outbox[s]).method = "release"
        /\ UNCHANGED <<tty, pc, node, replies>>
    BY DEF HandleRelease, Received, Taken
  <1>3. /\ 1 \in DOMAIN outbox[s] /\ outbox[s][1] = Head(outbox[s])
        /\ Head(outbox[s]) \in Message
    <2>1. outbox[s] \in Seq(Message) /\ outbox[s] # << >>
      BY <1>1, <1>2 DEF TypeOK
    <2> QED
      BY <2>1, HeadIsFirst, HeadTailProperties
  <1>4. k \in NodeLock => /\ NodeRelease(outbox[s][1])
                          /\ locks[k] = s
                          /\ pc[s] = "gone"
    BY <1>2, <1>3 DEF NodeInv, ReleasesHeld, ReleasesFinal, NodeRelease
  <1>5. \A j \in Key : j # k => locks'[j] = locks[j]
    BY <1>1, <1>2 DEF TypeOK
  <1>6. Unanswered'
    <2> SUFFICES ASSUME NEW t \in Session, tty'[t] = "none"
                 PROVE  /\ node'[t] = NoNode
                        /\ \A j \in Key : locks'[j] # t
                        /\ \A j \in Key : replies'[t][j] = << >>
                        /\ \A i \in DOMAIN outbox'[t] : ~NodeRelease(outbox'[t][i])
      BY DEF Unanswered, NodeRelease
    <2>1. t # s /\ tty[t] = "none"
      BY <1>2
    <2>2. \A j \in Key : locks'[j] # t
      BY <1>1, <1>2, <2>1, LocksAssumption DEF NodeInv, Unanswered, TypeOK
    <2> QED
      BY <1>1, <1>2, <2>1, <2>2 DEF NodeInv, Unanswered, TypeOK, Taken
  <1>7. NodesHeld'
    <2> SUFFICES ASSUME NEW t \in Session, NEW j \in NodeLock,
                        tty'[t] = "registered", pc'[t] # "gone",
                        Granted(t, j)' \/ node'[t] = j.n
                 PROVE  locks'[j] = t
      BY DEF NodesHeld
    <2>1. locks[j] = t /\ j \in Key
      BY <1>2 DEF NodeInv, NodesHeld, Granted, Key
    <2>2. j # k
      BY <1>2, <1>4, <2>1
    <2> QED
      BY <1>5, <2>1, <2>2
  <1>8. ReleasesHeld'
    <2> SUFFICES ASSUME NEW t \in Session, NEW i \in DOMAIN outbox'[t],
                        tty'[t] = "registered", NodeRelease(outbox'[t][i])
                 PROVE  locks'[outbox'[t][i].key] = t
      BY DEF ReleasesHeld, NodeRelease
    <2> DEFINE j == outbox'[t][i].key
    <2>1. j \in NodeLock /\ j \in Key
      BY DEF NodeRelease, Key
    <2>2. locks[j] = t
      <3>1. PICK m \in DOMAIN outbox[t] : outbox'[t][i] = outbox[t][m]
        BY <1>1, <1>2, TakenMessages
      <3> QED
        BY <1>2, <3>1 DEF NodeInv, ReleasesHeld
    <2>3. j # k
      <3>1. CASE t = s
        <4>1. i \in Nat \ {0} /\ i + 1 \in DOMAIN outbox[s] /\ outbox'[t][i] = outbox[s][i + 1]
          BY <1>1, <1>2, <3>1, TakenMessages
        <4>2. ~NodeRelease(outbox[s][1])
          BY <1>3, <4>1 DEF NodeInv, OneRelease
        <4> QED
          BY <1>4, <2>1, <4>2
      <3>2. CASE t # s
        BY <1>4, <2>1, <2>2, <3>2
      <3> QED
        BY <3>1, <3>2
    <2> QED
      BY <1>5, <2>1, <2>2, <2>3
  <1>9. ReleasesFinal' /\ OneRelease'
    BY <1>2, TakenPreserves
  <1> QED
    BY <1>6, <1>7, <1>8, <1>9 DEF NodeInv

\* Unregistering a tty preserves the invariant: it speaks of registered sessions, and the pipe is emptied.
LEMMA UnregisterPreserves ==
  ASSUME NodeInv, NEW s \in Session, Unregister(s), TypeOK'
  PROVE  NodeInv'
  <1>1. /\ tty'[s] = "closed" /\ DOMAIN outbox'[s] = {}
        /\ \A t \in Session \ {s} : tty'[t] = tty[t] /\ outbox'[t] = outbox[t]
        /\ UNCHANGED <<locks, pc, node, replies>>
    BY DEF Unregister, NodeInv, TypeOK
  <1>2. Unanswered'
    BY <1>1 DEF NodeInv, Unanswered, NodeRelease
  <1>3. NodesHeld'
    BY <1>1 DEF NodeInv, NodesHeld, Granted
  <1>4. ReleasesHeld' /\ ReleasesFinal' /\ OneRelease'
    BY <1>1 DEF NodeInv, ReleasesHeld, ReleasesFinal, OneRelease, NodeRelease
  <1> QED
    BY <1>2, <1>3, <1>4 DEF NodeInv

-----------------------------------------------------------------------------
(* The theorems.                                                           *)

\* Every step preserves the invariant.
LEMMA NodeInvNext == NodeInv /\ [Next]_vars => NodeInv'
  <1> SUFFICES ASSUME NodeInv, [Next]_vars PROVE NodeInv'
    OBVIOUS
  <1>1. TypeOK
    BY DEF NodeInv
  <1>2. CASE vars' = vars
    BY <1>2 DEF vars, NodeInv, TypeOK, Unanswered, NodesHeld, ReleasesHeld, ReleasesFinal,
                OneRelease, NodeRelease, Granted
  <1>3. ASSUME NEW s \in Session, Process(s) PROVE NodeInv'
    <2>1. TypeOK'
      BY <1>1, <1>3, TypeProcess
    <2>2. CASE Register(s)
      BY <2>1, <2>2, RegisterPreserves
    <2>3. CASE NodeGranted(s)
      BY <2>1, <2>3, NodeGrantedPreserves
    <2>4. CASE Logoff(s) /\ node[s] # NoNode
      BY <2>1, <2>4, LogoffPreserves
    <2>5. CASE ~Register(s) /\ ~NodeGranted(s) /\ ~(Logoff(s) /\ node[s] # NoNode)
      <3>1. Quiet(s)
        BY <1>1, <1>3, <2>5, QuietActions DEF Process, Read
      <3> QED
        BY <2>1, <3>1, QuietPreserves
    <2> QED
      BY <2>2, <2>3, <2>4, <2>5
  <1>4. ASSUME NEW s \in Session, Engine(s) PROVE NodeInv'
    <2>1. TypeOK'
      BY <1>1, <1>4, TypeEngine
    <2>2. CASE HandleAcquire(s)
      BY <2>1, <2>2, AcquirePreserves
    <2>3. CASE HandleRelease(s)
      BY <2>1, <2>3, ReleasePreserves
    <2>4. CASE HandleExit(s) \/ Kill(s)
      BY <2>1, <2>4, UnregisterPreserves DEF HandleExit, Kill
    <2> QED
      BY <1>4, <2>2, <2>3, <2>4 DEF Engine
  <1> QED
    BY <1>2, <1>3, <1>4 DEF Next, Finished

\* The invariant holds in every reachable state.
LEMMA NodeInvHolds == Spec => []NodeInv
  BY NodeInvInit, NodeInvNext, PTL DEF Spec

\* Two running sessions the engine knows never have the same node number.
THEOREM NodesAreUnique == Spec => []UniqueNodes
  BY NodeInvHolds, NodeInvImpliesUniqueNodes, PTL

\* A release in a pipe the engine still reads is of a node its sender holds.
THEOREM ReleasesAreOwn == Spec => []ReleasesOwnNode
  BY NodeInvHolds, NodeInvImpliesReleasesOwnNode, PTL

-----------------------------------------------------------------------------
(* The node locks implement LockService.                                   *)

\* A step that changes neither the locks nor a tty is a stutter of the service.
LEMMA ServiceStutters ==
  ASSUME UNCHANGED <<tty, locks>>
  PROVE  UNCHANGED NodeService!vars
  BY DEF NodeService!vars, NodeOwner, Registered

\* A tty that is registered joins the service.
LEMMA RegisterIsJoin ==
  ASSUME NodeInv, NEW s \in Session, Register(s)
  PROVE  NodeService!Join(s)
  <1>1. /\ tty[s] = "none" /\ locks' = locks
        /\ s \notin Registered /\ Registered' = Registered \cup {s}
    BY DEF Register, Registered, NodeInv, TypeOK
  <1>2. \A k \in NodeLock : locks[k] # s
    BY <1>1 DEF NodeInv, Unanswered, Key
  <1>3. NodeOwner' = NodeOwner
    BY <1>1, <1>2 DEF NodeOwner
  <1> QED
    BY <1>1, <1>3 DEF NodeService!Join

\* A tty that is unregistered leaves it, and what it held is free.
LEMMA UnregisterIsLeave ==
  ASSUME NodeInv, NEW s \in Session, tty[s] = "registered", Unregister(s)
  PROVE  NodeService!Leave(s)
  <1>1. /\ locks' = locks /\ s \in Registered /\ Registered' = Registered \ {s}
    BY DEF Unregister, Registered, NodeInv, TypeOK
  <1>2. NodeOwner' = [k \in NodeLock |-> IF NodeOwner[k] = s THEN None ELSE NodeOwner[k]]
    BY <1>1 DEF NodeOwner
  <1> QED
    BY <1>1, <1>2 DEF NodeService!Leave

\* A request is a grant, or a stutter if refused or about a door.
LEMMA AcquireIsGrant ==
  ASSUME NodeInv, NEW s \in Session, HandleAcquire(s)
  PROVE  \/ \E k \in NodeLock : NodeService!Grant(s, k)
         \/ UNCHANGED NodeService!vars
  <1> DEFINE k == Head(outbox[s]).key
  <1>1. s \in Registered /\ Registered' = Registered
    BY DEF HandleAcquire, Received, Registered
  <1>2. locks \in [Key -> Session \cup {None}]
    BY DEF NodeInv, TypeOK
  <1>3. CASE k \in NodeLock /\ Grantable(s, k)
    <2>1. locks' = [locks EXCEPT ![k] = s] /\ k \in Key
      BY <1>3 DEF HandleAcquire, Key
    <2>2. NodeOwner[k] \in {None, s}
      BY <1>3 DEF NodeOwner, Grantable
    <2>3. NodeOwner' = [NodeOwner EXCEPT ![k] = s]
      <3> HIDE DEF k
      <3>1. \A j \in NodeLock : j \in Key
        BY DEF Key
      <3> QED
        BY <1>1, <1>2, <1>3, <2>1, <3>1 DEF NodeOwner
    <2> QED
      BY <1>1, <1>3, <2>2, <2>3 DEF NodeService!Grant
  <1>4. CASE k \in NodeLock /\ ~Grantable(s, k)
    <2>1. locks' = locks /\ tty' = tty
      BY <1>4 DEF HandleAcquire
    <2> QED
      BY <2>1, ServiceStutters
  <1>5. CASE k \notin NodeLock
    <2>1. \A j \in NodeLock : locks'[j] = locks[j]
      BY <1>2, <1>5 DEF HandleAcquire, Key
    <2>2. NodeOwner' = NodeOwner
      BY <1>1, <2>1 DEF NodeOwner
    <2> QED
      BY <1>1, <2>2 DEF NodeService!vars
  <1> QED
    BY <1>3, <1>4, <1>5

\* A release is one by the owner, or a stutter if about a door.
LEMMA ReleaseIsRelease ==
  ASSUME NodeInv, NEW s \in Session, HandleRelease(s)
  PROVE  \/ \E k \in NodeLock : NodeService!Release(s, k)
         \/ UNCHANGED NodeService!vars
  <1> DEFINE k == Head(outbox[s]).key
  <1>1. s \in Registered /\ Registered' = Registered
    BY DEF HandleRelease, Received, Registered
  <1>2. locks \in [Key -> Session \cup {None}] /\ locks' = [locks EXCEPT ![k] = None]
    BY DEF NodeInv, TypeOK, HandleRelease
  <1>3. CASE k \in NodeLock
    <2>1. locks[k] = s
      <3>1. 1 \in DOMAIN outbox[s] /\ outbox[s][1] = Head(outbox[s])
        BY HeadIsFirst DEF HandleRelease, Received, NodeInv, TypeOK
      <3> QED
        BY <1>3, <3>1 DEF NodeInv, ReleasesHeld, NodeRelease, HandleRelease, Received
    <2>2. NodeOwner[k] = s
      BY <1>1, <1>3, <2>1 DEF NodeOwner
    <2>3. NodeOwner' = [NodeOwner EXCEPT ![k] = None]
      <3>1. k \in Key /\ \A j \in NodeLock : j \in Key
        BY <1>3 DEF Key
      <3>2. None \notin Registered
        BY LocksAssumption DEF Registered
      <3> HIDE DEF k
      <3> QED
        BY <1>1, <1>2, <1>3, <3>1, <3>2 DEF NodeOwner
    <2> QED
      BY <1>1, <1>3, <2>2, <2>3 DEF NodeService!Release
  <1>4. CASE k \notin NodeLock
    <2>1. \A j \in NodeLock : locks'[j] = locks[j]
      BY <1>2, <1>4 DEF Key
    <2>2. NodeOwner' = NodeOwner
      BY <1>1, <2>1 DEF NodeOwner
    <2> QED
      BY <1>1, <2>2 DEF NodeService!vars
  <1> QED
    BY <1>3, <1>4

\* The service starts with no owners and no sessions.
LEMMA ServiceInit == Init => NodeService!Init
  <1> SUFFICES ASSUME Init PROVE NodeService!Init
    OBVIOUS
  <1>1. Registered = {}
    BY DEF Init, Registered
  <1>2. NodeOwner = [k \in NodeLock |-> None]
    BY <1>1 DEF NodeOwner
  <1> QED
    BY <1>1, <1>2 DEF NodeService!Init

\* Every step is a step of the service or a stutter.
LEMMA ServiceNext == NodeInv /\ [Next]_vars => [NodeService!Next]_NodeService!vars
  <1> SUFFICES ASSUME NodeInv, [Next]_vars
               PROVE  NodeService!Next \/ UNCHANGED NodeService!vars
    OBVIOUS
  <1>1. CASE vars' = vars
    BY <1>1, ServiceStutters DEF vars
  <1>2. ASSUME NEW s \in Session, Process(s)
        PROVE  NodeService!Next \/ UNCHANGED NodeService!vars
    <2>1. CASE Register(s)
      BY <2>1, RegisterIsJoin DEF NodeService!Next
    <2>2. CASE ~Register(s)
      <3>1. locks' = locks /\ tty' = tty
        BY <1>2, <2>2 DEF Process, Read, Start, NodeGranted, NodeRefused, DoorGranted,
           DoorRefused, Disconnected, EnterDoor, LeaveDoor, DoorFails, DoorInterrupted,
           NodeInterrupted, Logoff, Crash
      <3> QED
        BY <3>1, ServiceStutters
    <2> QED
      BY <2>1, <2>2
  <1>3. ASSUME NEW s \in Session, Engine(s)
        PROVE  NodeService!Next \/ UNCHANGED NodeService!vars
    <2>1. CASE HandleAcquire(s)
      BY <2>1, AcquireIsGrant DEF NodeService!Next
    <2>2. CASE HandleRelease(s)
      BY <2>2, ReleaseIsRelease DEF NodeService!Next
    <2>3. CASE HandleExit(s) \/ Kill(s)
      BY <2>3, UnregisterIsLeave DEF NodeService!Next, HandleExit, Kill, Received
    <2> QED
      BY <1>3, <2>1, <2>2, <2>3 DEF Engine
  <1> QED
    BY <1>1, <1>2, <1>3 DEF Next, Finished

\* The node locks, seen as owned by registered holders only, are the lock
\* service: at most one owner, freed by its owner alone or when it leaves.
THEOREM NodeLocksImplement == Spec => ImplementsLockService
  <1>1. Spec => NodeService!Init /\ [][NodeService!Next]_NodeService!vars
    BY ServiceInit, ServiceNext, NodeInvHolds, PTL DEF Spec
  <1> QED
    BY <1>1, PTL DEF ImplementsLockService, NodeService!Spec

-----------------------------------------------------------------------------
(* Enough nodes.  A number that a session was refused, or has tried in vain,  *)
(* was granted to another session, and no session is ever granted two.  The   *)
(* second half needs that a session asks for one number at a time and takes   *)
(* its answer before it asks for the next.                                    *)

NodeAsk(m) == m.method = "acquire" /\ m.key \in NodeLock

\* No question about a node number is open.
NodeIdle(s) ==
  /\ \A i \in DOMAIN outbox[s] : ~NodeAsk(outbox[s][i])
  /\ \A k \in NodeLock : replies[s][k] = << >>

\* s asks for one node at a time, while it waits and for good,
AsksOnce(s) ==
  \A i \in DOMAIN outbox[s] : NodeAsk(outbox[s][i]) =>
    /\ pc[s] \in {"node", "gone"} /\ node[s] = NoNode
    /\ outbox[s][i].key = Lock("node", at[s])
    /\ \A k \in NodeLock : replies[s][k] = << >>
    /\ \A j \in DOMAIN outbox[s] : NodeAsk(outbox[s][j]) => j = i

\* and has at most one answer, to what it asked last.
AnswersOnce(s) ==
  \A k \in NodeLock : replies[s][k] # << >> =>
    /\ pc[s] \in {"node", "gone"} /\ node[s] = NoNode
    /\ k = Lock("node", at[s]) /\ Len(replies[s][k]) = 1

AskInv ==
  \A s \in Session :
    AsksOnce(s) /\ AnswersOnce(s) /\ (pc[s] \in {"off", "node"} => node[s] = NoNode)

\* s was granted k, be the grant taken or not.
Got(s, k) == node[s] = k.n \/ Granted(s, k)

OtherGot(s, k) == \E t \in Session \ {s} : Got(t, k)

Refused(s, k) == \E i \in DOMAIN replies[s][k] : replies[s][k][i] = FALSE

HeldIsGot == \A s \in Session, k \in NodeLock : locks[k] = s => Got(s, k)

RefusedIsGot == \A s \in Session, k \in NodeLock : Refused(s, k) => OtherGot(s, k)

TriedIsGot ==
  \A s \in Session, k \in NodeLock : pc[s] = "node" /\ k.n < at[s] => OtherGot(s, k)

AllAreGot ==
  \A s \in Session, k \in NodeLock :
    pc[s] \in {"main", "door", "play"} /\ node[s] = NoNode => OtherGot(s, k)

SufficeInv ==
  TypeOK /\ AskInv /\ HeldIsGot /\ RefusedIsGot /\ TriedIsGot /\ AllAreGot

\* A node lock is that of its number.
LEMMA NodeLockIsLock ==
  ASSUME NEW k \in NodeLock
  PROVE  k.n \in Node /\ k = Lock("node", k.n) /\ k \in Key
  BY DEF NodeLock, Lock, Key

\* The locks of nodes and those of doors are different.
LEMMA KindsDiffer ==
  /\ \A k \in NodeLock : k.kind = "node" /\ k \notin DoorLock
  /\ \A k \in DoorLock : k.kind = "door" /\ k \notin NodeLock
  /\ \A n : Lock("node", n) \notin DoorLock /\ Lock("door", n) \notin NodeLock
  BY DEF NodeLock, DoorLock, Lock

\* A step of a session, or of the engine for it, leaves all other sessions alone.
LEMMA OthersStay ==
  ASSUME TypeOK, NEW s \in Session, Process(s) \/ Engine(s), NEW t \in Session, t # s
  PROVE  /\ pc'[t] = pc[t] /\ at'[t] = at[t] /\ node'[t] = node[t] /\ tty'[t] = tty[t]
         /\ outbox'[t] = outbox[t] /\ replies'[t] = replies[t]
  <1>1. pc'[t] = pc[t] /\ at'[t] = at[t] /\ node'[t] = node[t] /\ tty'[t] = tty[t]
    BY DEF TypeOK, Process, Read, Engine, Start, Register, NodeGranted, NodeRefused, DoorGranted,
       DoorRefused, Disconnected, EnterDoor, LeaveDoor, DoorFails, DoorInterrupted,
       NodeInterrupted, Logoff, Crash, HandleAcquire, HandleRelease, HandleExit, Kill, Unregister,
       GoTo, Ask
  <1>2. outbox'[t] = outbox[t]
    BY DEF TypeOK, Process, Read, Engine, Start, Register, NodeGranted, NodeRefused, DoorGranted,
       DoorRefused, Disconnected, EnterDoor, LeaveDoor, DoorFails, DoorInterrupted,
       NodeInterrupted, Logoff, Crash, HandleAcquire, HandleRelease, HandleExit, Kill, Unregister,
       GoTo, Ask, Send
  <1>3. replies'[t] = replies[t]
    BY DEF TypeOK, Process, Read, Engine, Start, Register, NodeGranted, NodeRefused, DoorGranted,
       DoorRefused, Disconnected, EnterDoor, LeaveDoor, DoorFails, DoorInterrupted,
       NodeInterrupted, Logoff, Crash, HandleAcquire, HandleRelease, HandleExit, Kill, Unregister,
       GoTo, Answered, Reply
  <1> QED
    BY <1>1, <1>2, <1>3

\* What the pipe of a session holds after a step of the session: what it held, and at
\* most one request, sent last; or what a session that leaves says.
LEMMA SentByStep ==
  ASSUME TypeOK, NEW s \in Session, Process(s), NEW i \in DOMAIN outbox'[s]
  PROVE  \/ i \in DOMAIN outbox[s] /\ outbox'[s][i] = outbox[s][i]
         \/ /\ i = Len(outbox[s]) + 1 /\ i = Len(outbox'[s])
            /\ \/ Start(s) /\ outbox'[s][i] = Acquire(Lock("node", 1))
               \/ /\ NodeRefused(s) /\ at[s] < NumNodes
                  /\ outbox'[s][i] = Acquire(Lock("node", at[s] + 1))
               \/ EnterDoor(s) /\ outbox'[s][i] = Acquire(Lock("door", 1))
               \/ /\ DoorRefused(s) /\ at[s] < DoorNodes
                  /\ outbox'[s][i] = Acquire(Lock("door", at[s] + 1))
               \/ LeaveDoor(s) /\ outbox'[s][i] = Release(Lock("door", at[s]))
         \/ /\ NodeInterrupted(s) \/ Logoff(s)
            /\ outbox'[s][i] \in {Release(Lock("node", node[s])), Exit}
  <1>1. outbox[s] \in Seq(Message) /\ Len(outbox[s]) \in Nat
    BY LenProperties DEF TypeOK
  <1>2. ASSUME NEW m, outbox'[s] = Append(outbox[s], m)
        PROVE  \/ i \in DOMAIN outbox[s] /\ outbox'[s][i] = outbox[s][i]
               \/ i = Len(outbox[s]) + 1 /\ i = Len(outbox'[s]) /\ outbox'[s][i] = m
    BY <1>1, <1>2
  <1>3. ASSUME NEW m, Send(s, <<m>>), outbox'[s] # outbox[s]
        PROVE  outbox'[s] = Append(outbox[s], m)
    BY <1>1, <1>3 DEF Send, TypeOK
  <1>4. ASSUME outbox'[s] = outbox[s]
        PROVE  i \in DOMAIN outbox[s] /\ outbox'[s][i] = outbox[s][i]
    BY <1>4
  <1>5. CASE Start(s)
    BY <1>2, <1>3, <1>4, <1>5 DEF Start, Ask
  <1>6. CASE NodeRefused(s)
    BY <1>2, <1>3, <1>4, <1>6 DEF NodeRefused, Ask
  <1>7. CASE EnterDoor(s)
    BY <1>2, <1>3, <1>4, <1>7 DEF EnterDoor, Ask
  <1>8. CASE DoorRefused(s)
    BY <1>2, <1>3, <1>4, <1>8 DEF DoorRefused, Ask
  <1>9. CASE LeaveDoor(s)
    BY <1>2, <1>3, <1>4, <1>9 DEF LeaveDoor
  <1>10. CASE NodeInterrupted(s)
    BY <1>2, <1>3, <1>4, <1>10 DEF NodeInterrupted
  <1>11. CASE Logoff(s)
    <2>1. CASE node[s] = NoNode
      BY <1>2, <1>3, <1>4, <1>11, <2>1 DEF Logoff
    <2>2. CASE node[s] # NoNode
      <3> DEFINE last == <<Release(Lock("node", node[s])), Exit>>
      <3>1. Send(s, last) /\ last \in Seq(Message)
        <4>1. Lock("node", node[s]) \in Key
          BY <2>2, LockIsKey DEF TypeOK, NoNode, Node, Key
        <4> QED
          BY <1>11, <2>2, <4>1, MessagesAreTyped DEF Logoff
      <3>2. outbox'[s] \in {outbox[s], outbox[s] \o last}
        BY <1>1, <3>1, SendAppends DEF TypeOK
      <3>3. \A j \in DOMAIN last : last[j] \in {Release(Lock("node", node[s])), Exit}
        OBVIOUS
      <3> HIDE DEF last
      <3>4. CASE outbox'[s] = outbox[s] \o last
        BY <1>1, <1>11, <3>1, <3>3, <3>4, AddedMessages
      <3> QED
        BY <1>4, <3>2, <3>4
    <2> QED
      BY <2>1, <2>2
  <1>12. CASE UNCHANGED outbox
    BY <1>4, <1>12
  <1> QED
    BY <1>5, <1>6, <1>7, <1>8, <1>9, <1>10, <1>11, <1>12 DEF Process, Read, Register, NodeGranted,
       DoorGranted, Disconnected, DoorFails, DoorInterrupted, Crash

\* The first message is taken from the pipe of the session that the engine serves, or all.
LEMMA ReceivedByStep ==
  ASSUME TypeOK, NEW s \in Session, Engine(s), NEW i \in DOMAIN outbox'[s]
  PROVE  /\ i + 1 \in DOMAIN outbox[s] /\ i \in Nat \ {0}
         /\ outbox'[s][i] = outbox[s][i + 1]
  <1>1. outbox[s] \in Seq(Message)
    BY DEF TypeOK
  <1>2. CASE HandleAcquire(s) \/ HandleRelease(s)
    <2>1. outbox'[s] = Tail(outbox[s]) /\ outbox[s] # << >>
      BY <1>2 DEF HandleAcquire, HandleRelease, Received, TypeOK
    <2> QED
      BY <1>1, <2>1, RemainingMessages
  <1>3. CASE HandleExit(s) \/ Kill(s)
    BY <1>3 DEF HandleExit, Kill, Unregister, TypeOK
  <1> QED
    BY <1>2, <1>3 DEF Engine

\* What a session asks or releases is of the kind that it says.
LEMMA KindsOfMessages ==
  /\ \A n : /\ ~NodeAsk(Acquire(Lock("door", n))) /\ ~NodeAsk(Release(Lock("door", n)))
            /\ ~NodeAsk(Release(Lock("node", n)))
  /\ ~NodeAsk(Exit)
  BY KindsDiffer DEF NodeAsk, Acquire, Release, Exit

\* A session with a question open, other than the one it waits for, is gone.
LEMMA IdleOutsideWait ==
  ASSUME AskInv, NEW s \in Session, pc[s] \notin {"node", "gone"}
  PROVE  NodeIdle(s)
  BY DEF AskInv, AsksOnce, AnswersOnce, NodeIdle

\* With no question open there is nothing to ask twice.
LEMMA IdleAsksOnce ==
  ASSUME NEW s \in Session, NodeIdle(s)
  PROVE  AsksOnce(s) /\ AnswersOnce(s)
  BY DEF NodeIdle, AsksOnce, AnswersOnce

\* A queue of one is empty when its head is taken.
LEMMA LastTaken ==
  ASSUME NEW q \in Seq(BOOLEAN), Len(q) = 1
  PROVE  Tail(q) = << >> /\ DOMAIN q = {1} /\ q[1] = Head(q)
  <1>1. q # << >> /\ DOMAIN q = 1 .. 1
    <2>1. q # << >>
      BY EmptySeq
    <2>2. DOMAIN q = 1 .. Len(q)
      BY LenProperties
    <2> QED
      BY <2>1, <2>2
  <1>2. Tail(q) \in Seq(BOOLEAN) /\ Len(Tail(q)) = 0
    BY <1>1, HeadTailProperties
  <1>3. Tail(q) = << >>
    BY <1>2, EmptySeq
  <1> QED
    BY <1>1, <1>3

\* The answer for a node number is the only one, and no question is open then.
LEMMA NodeAnswerTaken ==
  ASSUME TypeOK, AskInv, NEW s \in Session, NEW answer \in BOOLEAN,
         pc[s] = "node", Answered(s, answer)
  PROVE  /\ Awaited(s) = Lock("node", at[s]) /\ Awaited(s) \in NodeLock
         /\ DOMAIN replies[s][Awaited(s)] = {1} /\ replies[s][Awaited(s)][1] = answer
         /\ \A i \in DOMAIN outbox[s] : ~NodeAsk(outbox[s][i])
         /\ \A k \in NodeLock : replies'[s][k] = << >>
         /\ \A k \in NodeLock : k # Awaited(s) => replies[s][k] = << >>
         /\ \A t \in Session \ {s} : replies'[t] = replies[t]
         /\ \A k \in NodeLock : /\ Granted(s, k) => k = Awaited(s) /\ answer = TRUE
                                /\ ~Refused(s, k)'
         /\ answer = FALSE => Refused(s, Awaited(s))
  <1>1. Awaited(s) = Lock("node", at[s]) /\ Awaited(s) \in NodeLock
    BY LockIsKey DEF Awaited, TypeOK
  <1>2. /\ replies[s][Awaited(s)] \in Seq(BOOLEAN) \ {<< >>}
        /\ Head(replies[s][Awaited(s)]) = answer
        /\ replies'[s][Awaited(s)] = Tail(replies[s][Awaited(s)])
        /\ \A j \in Key : j # Awaited(s) => replies'[s][j] = replies[s][j]
    BY AnsweredTakes
  <1>3. Len(replies[s][Awaited(s)]) = 1
    BY <1>1, <1>2 DEF AskInv, AnswersOnce
  <1>4. replies'[s][Awaited(s)] = << >> /\ DOMAIN replies[s][Awaited(s)] = {1}
    BY <1>2, <1>3, LastTaken
  <1>5. \A k \in NodeLock : k # Awaited(s) => replies[s][k] = << >>
    BY <1>1 DEF AskInv, AnswersOnce
  <1>6. \A k \in NodeLock : replies'[s][k] = << >>
    BY <1>2, <1>4, <1>5 DEF Key
  <1>7. \A i \in DOMAIN outbox[s] : ~NodeAsk(outbox[s][i])
    BY <1>1, <1>2 DEF AskInv, AsksOnce
  <1>8. \A t \in Session \ {s} : replies'[t] = replies[t]
    BY DEF Answered, TypeOK
  <1>9. replies[s][Awaited(s)][1] = answer
    BY <1>2, <1>3, LastTaken
  <1>10. DOMAIN << >> = {}
    OBVIOUS
  <1>11. \A k \in NodeLock : /\ Granted(s, k) => k = Awaited(s) /\ answer = TRUE
                             /\ ~Refused(s, k)'
    BY <1>4, <1>5, <1>6, <1>9, <1>10 DEF Granted, Refused
  <1>12. answer = FALSE => Refused(s, Awaited(s))
    BY <1>4, <1>9 DEF Refused
  <1> QED
    BY <1>1, <1>4, <1>5, <1>6, <1>7, <1>8, <1>9, <1>11, <1>12

\* An answer at a door is none about a node.
LEMMA DoorAnswerTaken ==
  ASSUME TypeOK, NEW s \in Session, NEW answer \in BOOLEAN, pc[s] = "door", Answered(s, answer)
  PROVE  \A t \in Session, k \in NodeLock : replies'[t][k] = replies[t][k]
  <1>1. Awaited(s) \notin NodeLock
    BY KindsDiffer DEF Awaited
  <1> QED
    BY <1>1, AnsweredTakes DEF Key

\* A step of a session keeps to one question.
LEMMA AskProcess ==
  ASSUME TypeOK, AskInv, NEW s \in Session, Process(s)
  PROVE  AskInv'
  <1>1. SUFFICES /\ AsksOnce(s)' /\ AnswersOnce(s)'
                 /\ pc'[s] \in {"off", "node"} => node'[s] = NoNode
    BY OthersStay DEF AskInv, AsksOnce, AnswersOnce, NodeAsk
  <1>2. CASE Start(s)
    <2>1. /\ NodeIdle(s) /\ replies' = replies /\ pc'[s] = "node" /\ at'[s] = 1
          /\ node'[s] = NoNode
      BY <1>2, IdleOutsideWait DEF Start, GoTo, Ask, TypeOK, AskInv
    <2>2. \A i \in DOMAIN outbox'[s] : NodeAsk(outbox'[s][i]) =>
            i = Len(outbox'[s]) /\ outbox'[s][i] = Acquire(Lock("node", 1))
      BY <1>2, <2>1, SentByStep, KindsOfMessages DEF NodeIdle, Start, NodeRefused, EnterDoor,
         DoorRefused, LeaveDoor, NodeInterrupted, Logoff
    <2> QED
      BY <2>1, <2>2 DEF NodeIdle, AsksOnce, AnswersOnce, Acquire, NodeAsk
  <1>3. CASE NodeGranted(s)
    <2>1. /\ \A i \in DOMAIN outbox[s] : ~NodeAsk(outbox[s][i])
          /\ \A k \in NodeLock : replies'[s][k] = << >>
      BY <1>3, NodeAnswerTaken DEF NodeGranted
    <2>2. NodeIdle(s)' /\ pc'[s] = "main"
      BY <1>3, <2>1 DEF NodeGranted, NodeIdle, GoTo, TypeOK, NodeAsk
    <2> QED
      BY <2>2 DEF NodeIdle, AsksOnce, AnswersOnce, NodeAsk
  <1>4. CASE NodeRefused(s)
    <2>1. /\ \A i \in DOMAIN outbox[s] : ~NodeAsk(outbox[s][i])
          /\ \A k \in NodeLock : replies'[s][k] = << >>
          /\ node'[s] = NoNode
      BY <1>4, NodeAnswerTaken DEF NodeRefused, AskInv
    <2>2. CASE at[s] < NumNodes
      <3>1. pc'[s] = "node" /\ at'[s] = at[s] + 1
        BY <1>4, <2>2 DEF NodeRefused, Ask, TypeOK
      <3>2. \A i \in DOMAIN outbox'[s] : NodeAsk(outbox'[s][i]) =>
              i = Len(outbox'[s]) /\ outbox'[s][i] = Acquire(Lock("node", at[s] + 1))
        BY <1>4, <2>1, SentByStep, KindsOfMessages DEF Start, NodeRefused, EnterDoor,
           DoorRefused, LeaveDoor, NodeInterrupted, Logoff
      <3> QED
        BY <2>1, <3>1, <3>2 DEF AsksOnce, AnswersOnce, Acquire, NodeAsk
    <2>3. CASE ~(at[s] < NumNodes)
      <3>1. outbox' = outbox /\ pc'[s] = "main"
        BY <1>4, <2>3 DEF NodeRefused, GoTo, TypeOK
      <3> QED
        BY <2>1, <3>1 DEF AsksOnce, AnswersOnce, NodeAsk
    <2> QED
      BY <2>2, <2>3
  <1>5. CASE NodeInterrupted(s) \/ Disconnected(s) \/ Crash(s)
    <2>1. /\ pc'[s] = "gone" /\ UNCHANGED <<at, node, replies>> /\ pc[s] # "off"
          /\ outbox' = outbox \/ NodeInterrupted(s)
      BY <1>5 DEF NodeInterrupted, Disconnected, Crash, GoTo, TypeOK
    <2>2. \A i \in DOMAIN outbox'[s] : NodeAsk(outbox'[s][i]) =>
            i \in DOMAIN outbox[s] /\ outbox'[s][i] = outbox[s][i]
      <3>1. CASE outbox' = outbox
        BY <3>1
      <3>2. CASE NodeInterrupted(s)
        <4>1. pc[s] = "node" /\ pc'[s] = "gone"
          BY <3>2 DEF NodeInterrupted, GoTo, TypeOK
        <4>2. ~Start(s) /\ ~EnterDoor(s) /\ ~DoorRefused(s) /\ ~LeaveDoor(s)
          BY <4>1 DEF Start, EnterDoor, DoorRefused, LeaveDoor
        <4>3. ~NodeRefused(s)
          BY <4>1 DEF NodeRefused, GoTo, TypeOK
        <4> QED
          BY <4>2, <4>3, SentByStep, KindsOfMessages
      <3> QED
        BY <2>1, <3>1, <3>2
    <2>3. AsksOnce(s) /\ AnswersOnce(s) /\ (pc[s] = "node" => node[s] = NoNode)
      BY DEF AskInv
    <2>4. AsksOnce(s)'
      <3> SUFFICES ASSUME NEW i \in DOMAIN outbox'[s], NodeAsk(outbox'[s][i])
                   PROVE  /\ node[s] = NoNode
                          /\ outbox'[s][i].key = Lock("node", at[s])
                          /\ \A k \in NodeLock : replies[s][k] = << >>
                          /\ \A j \in DOMAIN outbox'[s] : NodeAsk(outbox'[s][j]) => j = i
        BY <2>1 DEF AsksOnce, NodeAsk
      <3> QED
        BY <2>2, <2>3 DEF AsksOnce
    <2>5. AnswersOnce(s)'
      BY <2>1, <2>3 DEF AnswersOnce
    <2> QED
      BY <2>1, <2>4, <2>5
  <1>6. CASE Register(s)
    BY <1>6 DEF Register, AskInv, AsksOnce, AnswersOnce, NodeAsk
  <1>7. CASE \/ EnterDoor(s) \/ DoorGranted(s) \/ DoorRefused(s) \/ LeaveDoor(s) \/ DoorFails(s)
             \/ DoorInterrupted(s) \/ Logoff(s)
    <2>1. NodeIdle(s) /\ pc'[s] \notin {"off", "node"}
      BY <1>7, IdleOutsideWait DEF EnterDoor, DoorGranted, DoorRefused, LeaveDoor, DoorFails,
         DoorInterrupted, Logoff, GoTo, TypeOK
    <2>2. \A k \in NodeLock : replies'[s][k] = replies[s][k]
      BY <1>7, DoorAnswerTaken DEF EnterDoor, DoorGranted, DoorRefused, LeaveDoor, DoorFails,
         DoorInterrupted, Logoff
    <2>3. \A i \in DOMAIN outbox'[s] : ~NodeAsk(outbox'[s][i])
      BY <1>7, <2>1, SentByStep, KindsOfMessages DEF NodeIdle, Start, NodeRefused, EnterDoor,
         DoorGranted, DoorRefused, LeaveDoor, DoorFails, DoorInterrupted, Logoff
    <2>4. NodeIdle(s)'
      BY <2>1, <2>2, <2>3 DEF NodeIdle, NodeAsk
    <2> QED
      BY <2>1, <2>4 DEF NodeIdle, AsksOnce, AnswersOnce, NodeAsk
  <1> QED
    BY <1>2, <1>3, <1>4, <1>5, <1>6, <1>7 DEF Process, Read

\* An answer is the only one; the question is not asked any more.
LEMMA AskEngine ==
  ASSUME TypeOK, AskInv, NEW s \in Session, Engine(s)
  PROVE  AskInv'
  <1>1. SUFFICES AsksOnce(s)' /\ AnswersOnce(s)' /\ UNCHANGED <<pc, at, node>>
    BY OthersStay DEF AskInv, AsksOnce, AnswersOnce, NodeAsk
  <1>2. UNCHANGED <<pc, at, node>>
    BY DEF Engine, HandleAcquire, HandleRelease, HandleExit, Kill, Unregister
  <1>3. AsksOnce(s) /\ AnswersOnce(s)
    BY DEF AskInv
  <1>4. \A i \in DOMAIN outbox'[s] : NodeAsk(outbox'[s][i]) =>
          /\ i + 1 \in DOMAIN outbox[s] /\ i \in Nat \ {0}
          /\ outbox'[s][i] = outbox[s][i + 1]
          /\ ~NodeAsk(outbox[s][1])
    <2> SUFFICES ASSUME NEW i \in DOMAIN outbox'[s], NodeAsk(outbox'[s][i])
                 PROVE  /\ i + 1 \in DOMAIN outbox[s] /\ i \in Nat \ {0}
                        /\ outbox'[s][i] = outbox[s][i + 1]
                        /\ ~NodeAsk(outbox[s][1])
      OBVIOUS
    <2>1. /\ i + 1 \in DOMAIN outbox[s] /\ i \in Nat \ {0}
          /\ outbox'[s][i] = outbox[s][i + 1]
      BY ReceivedByStep
    <2>2. 1 \in DOMAIN outbox[s] /\ i + 1 # 1
      BY <2>1, LenProperties DEF TypeOK
    <2> QED
      BY <1>3, <2>1, <2>2 DEF AsksOnce
  <1>5. CASE replies' = replies
    BY <1>2, <1>3, <1>4, <1>5 DEF AsksOnce, AnswersOnce, NodeAsk
  <1>6. CASE HandleAcquire(s)
    <2> DEFINE k == Head(outbox[s]).key
    <2>1. /\ outbox[s] \in Seq(Message) /\ outbox[s] # << >>
          /\ Head(outbox[s]) \in Message /\ Head(outbox[s]).method = "acquire"
      BY <1>6 DEF HandleAcquire, Received, TypeOK
    <2>2. 1 \in DOMAIN outbox[s] /\ outbox[s][1] = Head(outbox[s]) /\ k \in Key
      BY <2>1, HeadIsFirst DEF Message
    <2>3. PICK answer \in BOOLEAN : Reply(s, k, answer)
      BY <1>6 DEF HandleAcquire
    <2>4. /\ replies'[s][k] = Append(replies[s][k], answer)
          /\ \A j \in Key : j # k => replies'[s][j] = replies[s][j]
      BY <2>2, <2>3 DEF Reply, TypeOK
    <2>5. CASE k \in NodeLock
      <3>1. /\ NodeAsk(outbox[s][1])
            /\ pc[s] \in {"node", "gone"} /\ node[s] = NoNode
            /\ k = Lock("node", at[s])
            /\ \A j \in NodeLock : replies[s][j] = << >>
        BY <1>3, <2>1, <2>2, <2>5 DEF AsksOnce, NodeAsk
      <3>2. AsksOnce(s)'
        BY <1>4, <2>1, <3>1 DEF AsksOnce, NodeAsk
      <3>3. Len(replies'[s][k]) = 1
        BY <2>4, <2>5, <3>1
      <3>4. AnswersOnce(s)'
        BY <1>2, <2>4, <3>1, <3>3, NodeLockIsLock DEF AnswersOnce
      <3> QED
        BY <1>2, <3>2, <3>4
    <2>6. CASE k \notin NodeLock
      <3>1. \A j \in NodeLock : replies'[s][j] = replies[s][j]
        BY <2>4, <2>6, NodeLockIsLock
      <3> QED
        BY <1>2, <1>3, <1>4, <3>1 DEF AsksOnce, AnswersOnce, NodeAsk
    <2> QED
      BY <2>5, <2>6
  <1> QED
    BY <1>5, <1>6 DEF Engine, HandleRelease, HandleExit, Kill, Unregister

\* A session that was granted two nodes, was granted one.
LEMMA OneGot ==
  ASSUME AskInv, TypeOK, NEW s \in Session, NEW j \in NodeLock, NEW k \in NodeLock,
         Got(s, j), Got(s, k)
  PROVE  j = k
  <1>1. j = Lock("node", j.n) /\ k = Lock("node", k.n) /\ j.n # NoNode /\ k.n # NoNode
    BY NodeLockIsLock DEF Node, NoNode
  <1>2. \A l \in NodeLock : Granted(s, l) => node[s] = NoNode /\ l = Lock("node", at[s])
    BY DEF AskInv, AnswersOnce, Granted
  <1> QED
    BY <1>1, <1>2 DEF Got

\* What was granted stays granted: the session takes the grant only to keep the node.
LEMMA GotProcess ==
  ASSUME TypeOK, AskInv, NEW s \in Session, Process(s), NEW t \in Session, NEW k \in NodeLock,
         Got(t, k)
  PROVE  Got(t, k)'
  <1>1. CASE t # s
    BY <1>1, OthersStay DEF Got, Granted
  <1>2. CASE t = s /\ NodeGranted(s)
    <2>1. pc[s] = "node" /\ node[s] = NoNode /\ Answered(s, TRUE) /\ node'[s] = at[s]
      BY <1>2 DEF NodeGranted, AskInv, TypeOK
    <2>2. Granted(s, k)
      BY <1>2, <2>1, NodeLockIsLock DEF Got, Node, NoNode
    <2>3. k = Awaited(s) /\ Awaited(s) = Lock("node", at[s])
      BY <2>1, <2>2, NodeAnswerTaken
    <2> QED
      BY <1>2, <2>1, <2>3 DEF Got, Lock
  <1>3. CASE t = s /\ NodeRefused(s)
    <2>1. pc[s] = "node" /\ node[s] = NoNode /\ Answered(s, FALSE)
      BY <1>3 DEF NodeRefused, AskInv
    <2>2. Granted(s, k)
      BY <1>3, <2>1, NodeLockIsLock DEF Got, Node, NoNode
    <2> QED
      BY <2>1, <2>2, NodeAnswerTaken
  <1>4. CASE t = s /\ ~NodeGranted(s) /\ ~NodeRefused(s)
    <2>1. node' = node
      BY <1>4 DEF Process, Read, Start, Register, DoorGranted,
         DoorRefused, Disconnected, EnterDoor, LeaveDoor, DoorFails, DoorInterrupted,
         NodeInterrupted, Logoff, Crash
    <2>2. replies'[s][k] = replies[s][k]
      BY <1>4, DoorAnswerTaken DEF Process, Read, Start, Register, DoorGranted,
         DoorRefused, Disconnected, EnterDoor, LeaveDoor, DoorFails, DoorInterrupted,
         NodeInterrupted, Logoff, Crash
    <2> QED
      BY <1>4, <2>1, <2>2 DEF Got, Granted
  <1> QED
    BY <1>1, <1>2, <1>3, <1>4

\* How the engine answers: with a grant that the dictionary records, or a refusal on
\* behalf of another session that holds the lock.
LEMMA EngineAnswers ==
  ASSUME TypeOK, NEW s \in Session, HandleAcquire(s)
  PROVE  \E k \in Key, answer \in BOOLEAN :
           /\ 1 \in DOMAIN outbox[s] /\ outbox[s][1].method = "acquire" /\ outbox[s][1].key = k
           /\ replies'[s][k] = Append(replies[s][k], answer)
           /\ replies[s][k] \in Seq(BOOLEAN)
           /\ \A t \in Session, j \in Key :
                t # s \/ j # k => replies'[t][j] = replies[t][j]
           /\ \/ answer = TRUE /\ locks' = [locks EXCEPT ![k] = s] /\ Grantable(s, k)
              \/ answer = FALSE /\ locks' = locks /\ locks[k] \in Registered \ {s}
  <1> DEFINE k == Head(outbox[s]).key
  <1>1. /\ outbox[s] \in Seq(Message) /\ outbox[s] # << >>
        /\ Head(outbox[s]) \in Message /\ Head(outbox[s]).method = "acquire"
    BY DEF HandleAcquire, Received, TypeOK
  <1>2. 1 \in DOMAIN outbox[s] /\ outbox[s][1] = Head(outbox[s]) /\ k \in Key
    BY <1>1, HeadIsFirst DEF Message
  <1>3. replies[s][k] \in Seq(BOOLEAN)
    BY <1>2 DEF TypeOK
  <1>4. PICK answer \in BOOLEAN :
          /\ Reply(s, k, answer)
          /\ \/ answer = TRUE /\ locks' = [locks EXCEPT ![k] = s] /\ Grantable(s, k)
             \/ answer = FALSE /\ locks' = locks /\ ~Grantable(s, k)
    BY DEF HandleAcquire
  <1>5. /\ replies'[s][k] = Append(replies[s][k], answer)
        /\ \A t \in Session, j \in Key : t # s \/ j # k => replies'[t][j] = replies[t][j]
    BY <1>2, <1>4 DEF Reply, TypeOK
  <1> HIDE DEF k
  <1> QED
    BY <1>1, <1>2, <1>3, <1>4, <1>5 DEF k, Grantable

\* A queue with an answer more holds what it held, and the answer.
LEMMA AnswerAdded ==
  ASSUME NEW s \in Session, NEW k \in Key, NEW answer \in BOOLEAN,
         replies[s][k] \in Seq(BOOLEAN), replies'[s][k] = Append(replies[s][k], answer)
  PROVE  /\ Granted(s, k)' <=> answer = TRUE \/ Granted(s, k)
         /\ Refused(s, k)' <=> answer = FALSE \/ Refused(s, k)
  <1> DEFINE q == replies[s][k]
  <1>1. /\ DOMAIN q = 1 .. Len(q) /\ Len(q) \in Nat
        /\ DOMAIN Append(q, answer) = 1 .. Len(q) + 1
    BY LenProperties, AppendProperties
  <1>2. /\ \A i \in DOMAIN q : Append(q, answer)[i] = q[i]
        /\ Append(q, answer)[Len(q) + 1] = answer
    BY <1>1, AppendProperties
  <1>3. ASSUME NEW b \in BOOLEAN
        PROVE  (\E i \in DOMAIN Append(q, answer) : Append(q, answer)[i] = b)
                 <=> b = answer \/ \E i \in DOMAIN q : q[i] = b
    <2> HIDE DEF q
    <2> QED
      BY <1>1, <1>2
  <1> QED
    BY <1>3 DEF Granted, Refused

\* The engine takes no answer back,
LEMMA GotEngine ==
  ASSUME TypeOK, NEW s \in Session, Engine(s), NEW t \in Session, NEW k \in NodeLock, Got(t, k)
  PROVE  Got(t, k)'
  <1>1. node' = node /\ k \in Key
    BY DEF Engine, HandleAcquire, HandleRelease, HandleExit, Kill, Unregister, Key
  <1>2. CASE HandleAcquire(s)
    <2>1. PICK j \in Key, answer \in BOOLEAN :
            /\ 1 \in DOMAIN outbox[s] /\ outbox[s][1].method = "acquire" /\ outbox[s][1].key = j
            /\ replies'[s][j] = Append(replies[s][j], answer)
            /\ replies[s][j] \in Seq(BOOLEAN)
            /\ \A u \in Session, l \in Key :
                 u # s \/ l # j => replies'[u][l] = replies[u][l]
            /\ \/ answer = TRUE /\ locks' = [locks EXCEPT ![j] = s] /\ Grantable(s, j)
               \/ answer = FALSE /\ locks' = locks /\ locks[j] \in Registered \ {s}
      BY <1>2, EngineAnswers
    <2>2. Granted(t, k) => Granted(t, k)'
      <3>1. CASE t = s /\ k = j
        BY <2>1, <3>1, AnswerAdded
      <3>2. CASE t # s \/ k # j
        BY <1>1, <2>1, <3>2 DEF Granted
      <3> QED
        BY <3>1, <3>2
    <2> QED
      BY <1>1, <2>2 DEF Got
  <1>3. CASE replies' = replies
    BY <1>1, <1>3 DEF Got, Granted
  <1> QED
    BY <1>2, <1>3 DEF Engine, HandleRelease, HandleExit, Kill, Unregister

\* and refuses a number for the sake of one to whom it granted it.
LEMMA SufficeEngine ==
  ASSUME SufficeInv, NEW s \in Session, Engine(s), TypeOK'
  PROVE  SufficeInv'
  <1>1. TypeOK /\ AskInv
    BY DEF SufficeInv
  <1>2. AskInv'
    BY <1>1, AskEngine
  <1>3. \A t \in Session, k \in NodeLock : Got(t, k) => Got(t, k)'
    BY <1>1, GotEngine
  <1>4. \A t \in Session, k \in NodeLock : OtherGot(t, k) => OtherGot(t, k)'
    BY <1>3 DEF OtherGot
  <1>5. UNCHANGED <<pc, at, node>>
    BY DEF Engine, HandleAcquire, HandleRelease, HandleExit, Kill, Unregister
  <1>6. TriedIsGot' /\ AllAreGot'
    BY <1>4, <1>5 DEF SufficeInv, TriedIsGot, AllAreGot
  <1>7. HeldIsGot' /\ RefusedIsGot'
    <2>1. CASE HandleAcquire(s)
      <3>1. PICK k \in Key, answer \in BOOLEAN :
              /\ replies'[s][k] = Append(replies[s][k], answer)
              /\ replies[s][k] \in Seq(BOOLEAN)
              /\ \A t \in Session, j \in Key :
                   t # s \/ j # k => replies'[t][j] = replies[t][j]
              /\ \/ answer = TRUE /\ locks' = [locks EXCEPT ![k] = s]
                 \/ answer = FALSE /\ locks' = locks /\ locks[k] \in Registered \ {s}
        BY <1>1, <2>1, EngineAnswers
      <3>2. HeldIsGot'
        <4> SUFFICES ASSUME NEW t \in Session, NEW j \in NodeLock, locks'[j] = t
                     PROVE  Got(t, j)'
          BY DEF HeldIsGot
        <4>1. CASE locks[j] = t
          BY <1>3, <4>1 DEF SufficeInv, HeldIsGot
        <4>2. CASE locks[j] # t
          <5>1. j = k /\ t = s /\ answer = TRUE
            BY <1>1, <3>1, <4>2, NodeLockIsLock DEF TypeOK
          <5> QED
            BY <3>1, <5>1, AnswerAdded DEF Got
        <4> QED
          BY <4>1, <4>2
      <3>3. RefusedIsGot'
        <4> SUFFICES ASSUME NEW t \in Session, NEW j \in NodeLock, Refused(t, j)'
                     PROVE  OtherGot(t, j)'
          BY DEF RefusedIsGot
        <4>1. CASE Refused(t, j)
          BY <1>4, <4>1 DEF SufficeInv, RefusedIsGot
        <4>2. CASE ~Refused(t, j)
          <5>1. j = k /\ t = s
            BY <3>1, <4>2, NodeLockIsLock DEF Refused
          <5>2. answer = FALSE
            BY <3>1, <4>2, <5>1, AnswerAdded
          <5>3. locks[j] \in Session \ {t}
            BY <3>1, <5>1, <5>2 DEF Registered
          <5>4. OtherGot(t, j)
            BY <5>3 DEF SufficeInv, HeldIsGot, OtherGot
          <5> QED
            BY <1>4, <5>4
        <4> QED
          BY <4>1, <4>2
      <3> QED
        BY <3>2, <3>3
    <2>2. CASE HandleRelease(s) \/ HandleExit(s) \/ Kill(s)
      <3>1. /\ replies' = replies
            /\ \A j \in Key : locks'[j] \in {None, locks[j]}
        BY <1>1, <2>2 DEF HandleRelease, HandleExit, Kill, Unregister, TypeOK
      <3>2. HeldIsGot'
        BY <1>3, <3>1, NodeLockIsLock, LocksAssumption DEF SufficeInv, HeldIsGot
      <3>3. RefusedIsGot'
        BY <1>4, <3>1 DEF SufficeInv, RefusedIsGot, Refused
      <3> QED
        BY <3>2, <3>3
    <2> QED
      BY <2>1, <2>2 DEF Engine
  <1> QED
    BY <1>2, <1>6, <1>7 DEF SufficeInv

\* A session tries the next number only once it was refused the one before.
LEMMA SufficeProcess ==
  ASSUME SufficeInv, NEW s \in Session, Process(s), TypeOK'
  PROVE  SufficeInv'
  <1>1. TypeOK /\ AskInv
    BY DEF SufficeInv
  <1>2. AskInv'
    BY <1>1, AskProcess
  <1>3. \A t \in Session, k \in NodeLock : Got(t, k) => Got(t, k)'
    BY <1>1, GotProcess
  <1>4. \A t \in Session, k \in NodeLock : OtherGot(t, k) => OtherGot(t, k)'
    BY <1>3 DEF OtherGot
  <1>5. HeldIsGot'
    <2>1. locks' = locks
      BY DEF Process, Read, Start, Register, NodeGranted, NodeRefused, DoorGranted,
         DoorRefused, Disconnected, EnterDoor, LeaveDoor, DoorFails, DoorInterrupted,
         NodeInterrupted, Logoff, Crash
    <2> QED
      BY <1>3, <2>1 DEF SufficeInv, HeldIsGot
  <1>6. RefusedIsGot'
    <2> SUFFICES ASSUME NEW t \in Session, NEW k \in NodeLock, Refused(t, k)'
                 PROVE  Refused(t, k)
      BY <1>4 DEF SufficeInv, RefusedIsGot
    <2>1. CASE t # s
      BY <2>1, OthersStay, <1>1 DEF Refused
    <2>2. CASE t = s /\ (NodeGranted(s) \/ NodeRefused(s))
      BY <1>1, <2>2, NodeAnswerTaken DEF NodeGranted, NodeRefused
    <2>3. CASE t = s /\ ~NodeGranted(s) /\ ~NodeRefused(s)
      <3>1. replies'[s][k] = replies[s][k]
        BY <1>1, <2>3, DoorAnswerTaken DEF Process, Read, Start, Register, DoorGranted,
           DoorRefused, Disconnected, EnterDoor, LeaveDoor, DoorFails, DoorInterrupted,
           NodeInterrupted, Logoff, Crash
      <3> QED
        BY <2>3, <3>1 DEF Refused
    <2> QED
      BY <2>1, <2>2, <2>3
  <1>7. NodeRefused(s) => \A k \in NodeLock : k.n <= at[s] => OtherGot(s, k)
    <2> SUFFICES ASSUME NodeRefused(s), NEW k \in NodeLock, k.n <= at[s]
                 PROVE  OtherGot(s, k)
      OBVIOUS
    <2>1. pc[s] = "node" /\ Answered(s, FALSE) /\ at[s] \in Nat /\ k.n \in Nat
      <3>1. pc[s] = "node" /\ Answered(s, FALSE)
        BY DEF NodeRefused
      <3>2. at[s] \in Nat
        BY <1>1 DEF TypeOK
      <3>3. k.n \in Nat
        BY NodeLockIsLock DEF Node
      <3> QED
        BY <3>1, <3>2, <3>3
    <2>2. CASE k.n < at[s]
      BY <2>1, <2>2 DEF SufficeInv, TriedIsGot
    <2>3. CASE k.n = at[s]
      <3>1. k = Awaited(s) /\ Refused(s, k)
        BY <1>1, <2>1, <2>3, NodeLockIsLock, NodeAnswerTaken
      <3> QED
        BY <3>1 DEF SufficeInv, RefusedIsGot
    <2> QED
      BY <2>1, <2>2, <2>3
  <1>8. TriedIsGot'
    <2> SUFFICES ASSUME NEW t \in Session, NEW k \in NodeLock, pc'[t] = "node", k.n < at'[t]
                 PROVE  OtherGot(t, k)
      BY <1>4 DEF TriedIsGot
    <2>1. CASE pc[t] = "node" /\ at'[t] = at[t]
      BY <2>1 DEF SufficeInv, TriedIsGot
    <2>2. CASE ~(pc[t] = "node" /\ at'[t] = at[t])
      <3>1. t = s
        BY <1>1, <2>2, OthersStay
      <3>2. Start(s) \/ NodeRefused(s)
        BY <1>1, <2>2, <3>1 DEF Process, Read, Register, NodeGranted, DoorGranted, DoorRefused,
           Disconnected, EnterDoor, LeaveDoor, DoorFails, DoorInterrupted, NodeInterrupted,
           Logoff, Crash, GoTo, TypeOK, Ask
      <3>3. CASE Start(s)
        BY <1>1, <3>1, <3>3, NodeLockIsLock DEF Start, Ask, TypeOK, Node
      <3>4. CASE NodeRefused(s)
        <4>1. at'[s] \in {at[s], at[s] + 1} /\ at[s] \in Nat /\ k.n \in Nat
          BY <1>1, <3>4, NodeLockIsLock DEF NodeRefused, Ask, TypeOK, Node
        <4> QED
          BY <1>7, <3>1, <3>4, <4>1
      <3> QED
        BY <3>2, <3>3, <3>4
    <2> QED
      BY <2>1, <2>2
  <1>9. AllAreGot'
    <2> SUFFICES ASSUME NEW t \in Session, NEW k \in NodeLock,
                        pc'[t] \in {"main", "door", "play"}, node'[t] = NoNode
                 PROVE  OtherGot(t, k)
      BY <1>4 DEF AllAreGot
    <2>1. CASE pc[t] \in {"main", "door", "play"} /\ node[t] = NoNode
      BY <2>1 DEF SufficeInv, AllAreGot
    <2>2. CASE ~(pc[t] \in {"main", "door", "play"} /\ node[t] = NoNode)
      <3>1. t = s
        BY <1>1, <2>2, OthersStay
      <3>2. ~NodeGranted(s)
        <4>1. NodeGranted(s) => node'[s] = at[s] /\ at[s] \in Node
          BY <1>1 DEF NodeGranted, TypeOK
        <4> QED
          BY <3>1, <4>1 DEF Node, NoNode
      <3>3. NodeRefused(s)
        BY <1>1, <2>2, <3>1, <3>2 DEF Process, Read, Start, Register, DoorGranted, DoorRefused,
           Disconnected, EnterDoor, LeaveDoor, DoorFails, DoorInterrupted, NodeInterrupted,
           Logoff, Crash, GoTo, TypeOK
      <3>4. at[s] >= NumNodes /\ at[s] \in Nat
        <4>1. pc'[s] # pc[s] /\ at[s] \in Nat
          BY <1>1, <3>1, <3>3 DEF NodeRefused, TypeOK
        <4> QED
          BY <3>3, <4>1, LocksAssumption DEF NodeRefused
      <3>5. k.n <= at[s]
        BY <3>4, NodeLockIsLock, LocksAssumption DEF Node
      <3> QED
        BY <1>7, <3>1, <3>3, <3>5
    <2> QED
      BY <2>1, <2>2
  <1> QED
    BY <1>2, <1>5, <1>6, <1>8, <1>9 DEF SufficeInv

\* Nothing is asked, granted or refused at first.
LEMMA SufficeInit == Init => SufficeInv
  <1> SUFFICES ASSUME Init PROVE SufficeInv
    OBVIOUS
  <1>1. \A s \in Session : /\ pc[s] = "off" /\ node[s] = NoNode /\ outbox[s] = << >>
                           /\ \A k \in Key : replies[s][k] = << >> /\ locks[k] # s
    BY LocksAssumption DEF Init
  <1>2. AskInv
    <2>1. DOMAIN << >> = {}
      OBVIOUS
    <2> QED
      BY <1>1, <2>1 DEF AskInv, AsksOnce, AnswersOnce, Key
  <1>3. HeldIsGot /\ RefusedIsGot /\ TriedIsGot /\ AllAreGot
    BY <1>1 DEF HeldIsGot, RefusedIsGot, Refused, TriedIsGot, AllAreGot, Key
  <1> QED
    BY <1>2, <1>3, TypeInit DEF SufficeInv

\* Every step preserves the invariant.
LEMMA SufficeNext == SufficeInv /\ [Next]_vars => SufficeInv'
  <1> SUFFICES ASSUME SufficeInv, [Next]_vars PROVE SufficeInv'
    OBVIOUS
  <1>1. CASE vars' = vars
    BY <1>1 DEF vars, SufficeInv, TypeOK, AskInv, AsksOnce, AnswersOnce, NodeAsk, HeldIsGot,
       RefusedIsGot, TriedIsGot, AllAreGot, OtherGot, Got, Granted, Refused
  <1>2. ASSUME NEW s \in Session, Process(s) PROVE SufficeInv'
    BY <1>2, TypeProcess, SufficeProcess DEF SufficeInv
  <1>3. ASSUME NEW s \in Session, Engine(s) PROVE SufficeInv'
    BY <1>3, TypeEngine, SufficeEngine DEF SufficeInv
  <1> QED
    BY <1>1, <1>2, <1>3 DEF Next, Finished

\* No session but the one that is left without can have been granted every number.
LEMMA SufficeInvImpliesNodesSuffice ==
  ASSUME IsFiniteSet(Session), Cardinality(Session) <= NumNodes, SufficeInv
  PROVE  NodesSuffice
  <1> SUFFICES ASSUME NEW s \in Session, pc[s] \in {"main", "door", "play"}, node[s] = NoNode
               PROVE  FALSE
    BY DEF NodesSuffice
  <1> DEFINE Others == Session \ {s}
             f == [n \in Node |-> CHOOSE t \in Others : Got(t, Lock("node", n))]
  <1>1. \A n \in Node : Lock("node", n) \in NodeLock
    BY DEF Lock, NodeLock
  <1>2. \A n \in Node : f[n] \in Others /\ Got(f[n], Lock("node", n))
    BY <1>1 DEF SufficeInv, AllAreGot, OtherGot
  <1>3. \A m, n \in Node : f[m] = f[n] => m = n
    <2> SUFFICES ASSUME NEW m \in Node, NEW n \in Node, f[m] = f[n] PROVE m = n
      OBVIOUS
    <2> HIDE DEF f
    <2>1. Lock("node", m) = Lock("node", n)
      BY <1>1, <1>2, OneGot DEF SufficeInv
    <2> QED
      BY <2>1 DEF Lock
  <1>4. IsFiniteSet(Others) /\ Cardinality(Others) = Cardinality(Session) - 1
    BY FS_RemoveElement
  <1>5. IsFiniteSet(Node) /\ Cardinality(Node) = NumNodes
    BY FS_Interval, LocksAssumption DEF Node
  <1>6. Cardinality(Others) < Cardinality(Node)
    BY <1>4, <1>5, FS_CardinalityType, LocksAssumption
  <1>7. f \in [Node -> Others]
    BY <1>2
  <1> HIDE DEF f, Others
  <1> QED
    BY <1>3, <1>4, <1>5, <1>6, <1>7, FS_PigeonHole

\* With as many numbers as sessions every session gets one, whatever sessions are refused,
\* leave or are killed in between.
THEOREM NodesAreEnough ==
  ASSUME IsFiniteSet(Session), Cardinality(Session) <= NumNodes
  PROVE  Spec => []NodesSuffice
  <1>1. SufficeInv => NodesSuffice
    BY SufficeInvImpliesNodesSuffice
  <1> QED
    BY <1>1, SufficeInit, SufficeNext, PTL DEF Spec

-----------------------------------------------------------------------------
(* One session on a door node.  A session claims a node of a door while it    *)
(* plays there, has the grant to take, or has sent the release; and who       *)
(* claims a node holds its lock.  A grant is the answer to the one question   *)
(* that is open, as long as no wait was interrupted and left one behind.      *)

DoorAsk(m) == m.method = "acquire" /\ m.key \in DoorLock

DoorRelease(m) == m.method = "release" /\ m.key \in DoorLock

\* No question about a door is open.
DoorIdle(s) ==
  /\ \A i \in DOMAIN outbox[s] : ~DoorAsk(outbox[s][i])
  /\ \A k \in DoorLock : replies[s][k] = << >>

Releases(s) == \E i \in DOMAIN outbox[s] : DoorRelease(outbox[s][i])

\* A question is the last thing that s said, and not answered yet.
DoorAsksLast(s) ==
  \A i \in DOMAIN outbox[s] : DoorAsk(outbox[s][i]) =>
    /\ pc[s] \in {"door", "gone"}
    /\ pc[s] = "door" => outbox[s][i].key = Lock("door", at[s])
    /\ \A k \in DoorLock : replies[s][k] = << >>
    /\ i = Len(outbox[s])

\* An answer is the only one, and what s released before is free.
DoorAnswersOnce(s) ==
  \A k \in DoorLock : replies[s][k] # << >> =>
    /\ pc[s] \in {"door", "gone"}
    /\ pc[s] = "door" => k = Lock("door", at[s])
    /\ Len(replies[s][k]) = 1
    /\ ~Releases(s)

OneDoorRelease(s) ==
  \A i, j \in DOMAIN outbox[s] :
    DoorRelease(outbox[s][i]) /\ DoorRelease(outbox[s][j]) => i = j

\* Of a session that the engine has not closed
DoorTalk(s) ==
  /\ DoorAsksLast(s) /\ DoorAnswersOnce(s) /\ OneDoorRelease(s)
  /\ pc[s] = "play" => ~Releases(s)
  /\ tty[s] = "none" => pc[s] \in {"off", "node", "gone"} /\ ~Releases(s)
  /\ pc[s] \in {"off", "node"} => ~Releases(s)

Claims(s, k) ==
  \/ pc[s] = "play" /\ k = Lock("door", at[s])
  \/ pc[s] = "door" /\ Granted(s, k)
  \/ \E i \in DOMAIN outbox[s] : DoorRelease(outbox[s][i]) /\ outbox[s][i].key = k

ClaimsHeld ==
  \A s \in Session, k \in DoorLock : tty[s] = "registered" /\ Claims(s, k) => locks[k] = s

\* What a session says is a question about a door, a release of one, or neither.
LEMMA DoorKindsOfMessages ==
  /\ \A n \in Nat : /\ ~DoorAsk(Acquire(Lock("node", n))) /\ ~DoorRelease(Acquire(Lock("node", n)))
                    /\ ~DoorAsk(Release(Lock("node", n))) /\ ~DoorRelease(Release(Lock("node", n)))
                    /\ ~DoorAsk(Release(Lock("door", n))) /\ ~DoorRelease(Acquire(Lock("door", n)))
  /\ ~DoorAsk(Exit) /\ ~DoorRelease(Exit)
  BY KindsDiffer DEF DoorAsk, DoorRelease, Acquire, Release, Exit

\* The answer at a door is the only one, and no question is open then.
LEMMA DoorAnswerIsOnly ==
  ASSUME TypeOK, NEW s \in Session, DoorTalk(s), NEW answer \in BOOLEAN,
         pc[s] = "door", Answered(s, answer)
  PROVE  /\ Awaited(s) = Lock("door", at[s]) /\ Awaited(s) \in DoorLock
         /\ outbox' = outbox => DoorIdle(s)'
         /\ \A k \in DoorLock : replies'[s][k] = << >>
         /\ \A i \in DOMAIN outbox[s] : ~DoorAsk(outbox[s][i])
         /\ ~Releases(s)
         /\ answer = TRUE => Granted(s, Awaited(s))
  <1>1. Awaited(s) = Lock("door", at[s]) /\ Awaited(s) \in DoorLock
    BY LockIsKey DEF Awaited, TypeOK
  <1>2. /\ replies[s][Awaited(s)] \in Seq(BOOLEAN) \ {<< >>}
        /\ Head(replies[s][Awaited(s)]) = answer
        /\ replies'[s][Awaited(s)] = Tail(replies[s][Awaited(s)])
        /\ \A j \in Key : j # Awaited(s) => replies'[s][j] = replies[s][j]
    BY AnsweredTakes
  <1>3. Len(replies[s][Awaited(s)]) = 1 /\ ~Releases(s)
    BY <1>1, <1>2 DEF DoorTalk, DoorAnswersOnce
  <1>4. /\ replies'[s][Awaited(s)] = << >> /\ DOMAIN replies[s][Awaited(s)] = {1}
        /\ replies[s][Awaited(s)][1] = answer
    BY <1>2, <1>3, LastTaken
  <1>5. \A k \in DoorLock : k # Awaited(s) => replies[s][k] = << >>
    BY <1>1 DEF DoorTalk, DoorAnswersOnce
  <1>6. \A k \in DoorLock : replies'[s][k] = << >>
    BY <1>2, <1>4, <1>5 DEF Key
  <1>7. \A i \in DOMAIN outbox[s] : ~DoorAsk(outbox[s][i])
    BY <1>1, <1>2 DEF DoorTalk, DoorAsksLast
  <1>8. answer = TRUE => Granted(s, Awaited(s))
    BY <1>4 DEF Granted
  <1>9. outbox' = outbox => DoorIdle(s)'
    BY <1>6, <1>7 DEF DoorIdle, DoorAsk
  <1> QED
    BY <1>1, <1>3, <1>6, <1>7, <1>8, <1>9

\* An answer about a node is none about a door.
LEMMA NodeAnswerIsNoDoors ==
  ASSUME TypeOK, NEW s \in Session, NEW answer \in BOOLEAN, pc[s] = "node", Answered(s, answer)
  PROVE  \A t \in Session, k \in DoorLock : replies'[t][k] = replies[t][k]
  <1>1. Awaited(s) \notin DoorLock
    BY KindsDiffer DEF Awaited
  <1> QED
    BY <1>1, AnsweredTakes DEF Key

\* A session that does not wait at a door has no question about one open.
LEMMA TalkIdle ==
  ASSUME NEW s \in Session, DoorTalk(s), pc[s] \notin {"door", "gone"}
  PROVE  DoorIdle(s)
  BY DEF DoorIdle, DoorTalk, DoorAsksLast, DoorAnswersOnce

\* A session that sends no release of a door has those in its pipe that it had.
LEMMA OldReleases ==
  ASSUME TypeOK, NEW s \in Session, Process(s), ~LeaveDoor(s)
  PROVE  /\ \A i \in DOMAIN outbox'[s] : DoorRelease(outbox'[s][i]) =>
              i \in DOMAIN outbox[s] /\ outbox'[s][i] = outbox[s][i]
         /\ Releases(s)' => Releases(s)
         /\ OneDoorRelease(s) => OneDoorRelease(s)'
  <1>1. at[s] + 1 \in Nat /\ node[s] \in Nat
    BY DEF TypeOK, Node, NoNode
  <1>2. \A i \in DOMAIN outbox'[s] : DoorRelease(outbox'[s][i]) =>
          i \in DOMAIN outbox[s] /\ outbox'[s][i] = outbox[s][i]
    BY <1>1, SentByStep, DoorKindsOfMessages
  <1> QED
    BY <1>2 DEF Releases, OneDoorRelease, DoorRelease

\* Only who enters a door, or was refused a node of it, asks.
LEMMA OldAsks ==
  ASSUME TypeOK, NEW s \in Session, Process(s), ~EnterDoor(s), ~DoorRefused(s)
  PROVE  \A i \in DOMAIN outbox'[s] : DoorAsk(outbox'[s][i]) =>
           i \in DOMAIN outbox[s] /\ outbox'[s][i] = outbox[s][i]
  <1>1. at[s] + 1 \in Nat /\ node[s] \in Nat /\ at[s] \in Nat
    BY DEF TypeOK, Node, NoNode
  <1> QED
    BY <1>1, SentByStep, DoorKindsOfMessages

\* A step of a session that is not interrupted keeps to this.
LEMMA TalkProcess ==
  ASSUME TypeOK, Unanswered, NEW s \in Session, Process(s), ~DoorInterrupted(s),
         DoorTalk(s), tty[s] # "closed"
  PROVE  DoorTalk(s)'
  <1>1. /\ OneDoorRelease(s)
        /\ pc[s] = "play" => ~Releases(s)
        /\ pc[s] \in {"off", "node"} => ~Releases(s)
        /\ tty[s] = "none" => pc[s] \in {"off", "node", "gone"} /\ ~Releases(s)
    BY DEF DoorTalk
  <1>2. ASSUME DoorIdle(s)', OneDoorRelease(s)',
               pc'[s] \in {"off", "node", "play"} => ~Releases(s)',
               tty'[s] = "none" => pc'[s] \in {"off", "node", "gone"} /\ ~Releases(s)'
        PROVE  DoorTalk(s)'
    BY <1>2 DEF DoorIdle, DoorTalk, DoorAsksLast, DoorAnswersOnce, DoorAsk
  <1>3. CASE Start(s) \/ NodeGranted(s) \/ NodeRefused(s) \/ NodeInterrupted(s)
    <2>1. pc[s] \in {"off", "node"} /\ DoorIdle(s) /\ ~Releases(s) /\ tty' = tty
      BY <1>1, <1>3, TalkIdle DEF Start, NodeGranted, NodeRefused, NodeInterrupted
    <2>2. \A k \in DoorLock : replies'[s][k] = replies[s][k]
      BY <1>3, NodeAnswerIsNoDoors DEF Start, NodeGranted, NodeRefused, NodeInterrupted
    <2>3. ~EnterDoor(s) /\ ~DoorRefused(s) /\ ~LeaveDoor(s)
      BY <2>1 DEF EnterDoor, DoorRefused, LeaveDoor
    <2>4. DoorIdle(s)'
      BY <2>1, <2>2, <2>3, OldAsks DEF DoorIdle, DoorAsk
    <2>5. ~Releases(s)' /\ OneDoorRelease(s)'
      BY <1>1, <2>1, <2>3, OldReleases
    <2>6. tty'[s] = "none" => pc'[s] \in {"off", "node", "gone"}
      <3>1. CASE Start(s) \/ NodeInterrupted(s)
        BY <3>1 DEF Start, NodeInterrupted, GoTo, TypeOK
      <3>2. CASE NodeGranted(s) \/ NodeRefused(s)
        <4>1. Awaited(s) \in Key /\ replies[s][Awaited(s)] # << >>
          BY <3>2, AwaitedIsKey DEF NodeGranted, NodeRefused, Answered
        <4> QED
          BY <2>1, <4>1 DEF Unanswered
      <3> QED
        BY <1>3, <3>1, <3>2
    <2> QED
      BY <1>2, <2>4, <2>5, <2>6
  <1>4. CASE Register(s)
    BY <1>4 DEF Register, DoorTalk, DoorAsksLast, DoorAnswersOnce, OneDoorRelease, Releases,
                DoorAsk, DoorRelease, TypeOK
  <1>5. CASE Disconnected(s)
    BY <1>5 DEF Disconnected
  <1>6. CASE Crash(s)
    <2>1. UNCHANGED <<tty, at, outbox, replies>> /\ pc'[s] = "gone"
      BY <1>6 DEF Crash, GoTo, TypeOK
    <2>2. DoorAsksLast(s)' /\ DoorAnswersOnce(s)'
      BY <2>1 DEF DoorTalk, DoorAsksLast, DoorAnswersOnce, DoorAsk, Releases, DoorRelease
    <2> QED
      BY <1>1, <2>1, <2>2 DEF DoorTalk, OneDoorRelease, Releases, DoorRelease
  <1>7. CASE EnterDoor(s)
    <2>1. /\ pc[s] = "main" /\ pc'[s] = "door" /\ at'[s] = 1 /\ tty' = tty /\ tty[s] # "none"
          /\ replies' = replies /\ DoorIdle(s)
      BY <1>1, <1>7, TalkIdle DEF EnterDoor, GoTo, Ask, TypeOK
    <2>2. \A i \in DOMAIN outbox'[s] : DoorAsk(outbox'[s][i]) =>
            i = Len(outbox'[s]) /\ outbox'[s][i] = Acquire(Lock("door", 1))
      <3>1. ~Start(s) /\ ~NodeRefused(s) /\ ~DoorRefused(s) /\ ~LeaveDoor(s) /\ ~NodeInterrupted(s)
        BY <2>1 DEF Start, NodeRefused, DoorRefused, LeaveDoor, NodeInterrupted
      <3>2. ~Logoff(s)
        BY <2>1 DEF Logoff, GoTo, TypeOK
      <3> QED
        BY <2>1, <3>1, <3>2, SentByStep DEF DoorIdle
    <2>3. OneDoorRelease(s)'
      BY <1>1, <2>1, OldReleases DEF LeaveDoor
    <2>4. DoorAsksLast(s)'
      BY <2>1, <2>2 DEF DoorAsksLast, DoorIdle, Acquire, DoorAsk
    <2>5. DoorAnswersOnce(s)'
      BY <2>1 DEF DoorAnswersOnce, DoorIdle
    <2> QED
      BY <2>1, <2>3, <2>4, <2>5 DEF DoorTalk
  <1>8. CASE DoorGranted(s)
    <2>1. /\ pc'[s] = "play" /\ tty' = tty /\ tty[s] # "none" /\ outbox' = outbox
          /\ DoorIdle(s)' /\ ~Releases(s)
      BY <1>1, <1>8, DoorAnswerIsOnly DEF DoorGranted, GoTo, TypeOK
    <2> QED
      BY <1>1, <1>2, <2>1 DEF OneDoorRelease, Releases, DoorRelease
  <1>9. CASE DoorRefused(s)
    <2>1. /\ pc[s] = "door" /\ tty' = tty /\ tty[s] # "none" /\ ~Releases(s)
          /\ \A k \in DoorLock : replies'[s][k] = << >>
          /\ \A i \in DOMAIN outbox[s] : ~DoorAsk(outbox[s][i])
      BY <1>1, <1>9, DoorAnswerIsOnly DEF DoorRefused
    <2>2. OneDoorRelease(s)' /\ ~Releases(s)'
      BY <1>1, <2>1, OldReleases DEF LeaveDoor
    <2>3. CASE at[s] < DoorNodes
      <3>1. pc'[s] = "door" /\ at'[s] = at[s] + 1
        BY <1>9, <2>1, <2>3 DEF DoorRefused, Ask, TypeOK
      <3>2. \A i \in DOMAIN outbox'[s] : DoorAsk(outbox'[s][i]) =>
              i = Len(outbox'[s]) /\ outbox'[s][i] = Acquire(Lock("door", at[s] + 1))
        <4>1. ~Start(s) /\ ~NodeRefused(s) /\ ~EnterDoor(s) /\ ~LeaveDoor(s)
                /\ ~NodeInterrupted(s) /\ ~Logoff(s)
          BY <2>1 DEF Start, NodeRefused, EnterDoor, LeaveDoor, NodeInterrupted, Logoff
        <4> QED
          BY <2>1, <4>1, SentByStep
      <3>3. DoorAsksLast(s)'
        BY <2>1, <3>1, <3>2 DEF DoorAsksLast, Acquire, DoorAsk
      <3>4. DoorAnswersOnce(s)'
        BY <2>1 DEF DoorAnswersOnce
      <3> QED
        BY <2>1, <2>2, <3>1, <3>3, <3>4 DEF DoorTalk
    <2>4. CASE ~(at[s] < DoorNodes)
      <3>1. pc'[s] = "main" /\ outbox' = outbox
        BY <1>9, <2>4 DEF DoorRefused, GoTo, TypeOK
      <3>2. DoorIdle(s)'
        BY <2>1, <3>1 DEF DoorIdle, DoorAsk
      <3> QED
        BY <1>2, <2>1, <2>2, <3>1, <3>2
    <2> QED
      BY <2>3, <2>4
  <1>10. CASE LeaveDoor(s)
    <2>1. /\ pc[s] = "play" /\ pc'[s] = "main" /\ tty' = tty /\ tty[s] # "none"
          /\ replies' = replies /\ DoorIdle(s) /\ ~Releases(s)
      BY <1>1, <1>10, TalkIdle DEF LeaveDoor, GoTo, TypeOK
    <2>2. \A i \in DOMAIN outbox'[s] : ~DoorAsk(outbox'[s][i])
      BY <2>1, OldAsks DEF DoorIdle, EnterDoor, DoorRefused
    <2>3. \A i \in DOMAIN outbox'[s] : DoorRelease(outbox'[s][i]) => i = Len(outbox[s]) + 1
      <3>1. ~Logoff(s) /\ ~NodeInterrupted(s)
        BY <2>1 DEF Logoff, NodeInterrupted
      <3> QED
        BY <2>1, <3>1, SentByStep DEF Releases
    <2>4. DoorIdle(s)' /\ OneDoorRelease(s)'
      BY <2>1, <2>2, <2>3 DEF DoorIdle, OneDoorRelease, DoorAsk, DoorRelease
    <2> QED
      BY <1>2, <2>1, <2>4
  <1>11. CASE DoorFails(s)
    <2>1. /\ pc'[s] = "main" /\ UNCHANGED <<tty, outbox, replies>> /\ tty[s] # "none"
          /\ DoorIdle(s)
      BY <1>1, <1>11, TalkIdle DEF DoorFails, GoTo, TypeOK
    <2>2. DoorIdle(s)' /\ OneDoorRelease(s)'
      BY <1>1, <2>1 DEF DoorIdle, OneDoorRelease, DoorAsk, DoorRelease
    <2> QED
      BY <1>2, <2>1, <2>2
  <1>12. CASE Logoff(s)
    <2>1. /\ pc[s] = "main" /\ pc'[s] = "gone" /\ tty' = tty /\ replies' = replies /\ DoorIdle(s)
          /\ tty[s] # "none"
      BY <1>1, <1>12, TalkIdle DEF Logoff, GoTo, TypeOK
    <2>2. \A i \in DOMAIN outbox'[s] : ~DoorAsk(outbox'[s][i])
      BY <2>1, OldAsks DEF DoorIdle, EnterDoor, DoorRefused, GoTo, TypeOK
    <2>3. OneDoorRelease(s)'
      BY <1>1, <2>1, OldReleases DEF LeaveDoor
    <2>4. DoorIdle(s)'
      BY <2>1, <2>2 DEF DoorIdle, DoorAsk
    <2> QED
      BY <1>2, <2>1, <2>3, <2>4
  <1> QED
    BY <1>3, <1>4, <1>5, <1>6, <1>7, <1>8, <1>9, <1>10, <1>11, <1>12 DEF Process, Read

\* The claims of a session that plays, or waits, at a door, before and after a step.
LEMMA ClaimsProcess ==
  ASSUME TypeOK, NEW s \in Session, Process(s), ~DoorInterrupted(s), DoorTalk(s),
         tty[s] = "registered", NEW k \in DoorLock, Claims(s, k)'
  PROVE  Claims(s, k)
  <1>1. CASE \E i \in DOMAIN outbox'[s] : DoorRelease(outbox'[s][i]) /\ outbox'[s][i].key = k
    <2>1. CASE ~LeaveDoor(s)
      BY <1>1, <2>1, OldReleases DEF Claims
    <2>2. CASE LeaveDoor(s)
      <3>1. pc[s] = "play" /\ ~Releases(s)
        BY <2>2 DEF LeaveDoor, DoorTalk
      <3>2. PICK i \in DOMAIN outbox'[s] : DoorRelease(outbox'[s][i]) /\ outbox'[s][i].key = k
        BY <1>1
      <3>3. outbox'[s][i] = Release(Lock("door", at[s]))
        <4>1. ~Logoff(s) /\ ~NodeInterrupted(s) /\ ~Start(s) /\ ~NodeRefused(s) /\ ~EnterDoor(s)
                /\ ~DoorRefused(s)
          BY <3>1 DEF Logoff, NodeInterrupted, Start, NodeRefused, EnterDoor, DoorRefused
        <4>2. ~(i \in DOMAIN outbox[s] /\ outbox'[s][i] = outbox[s][i])
          BY <3>1, <3>2 DEF Releases
        <4> QED
          BY <4>1, <4>2, SentByStep
      <3> QED
        BY <3>1, <3>2, <3>3 DEF Claims, Release
    <2> QED
      BY <2>1, <2>2
  <1>2. CASE pc'[s] = "play" /\ k = Lock("door", at'[s])
    <2>1. CASE DoorGranted(s)
      BY <1>2, <2>1, DoorAnswerIsOnly DEF DoorGranted, Claims
    <2>2. CASE ~DoorGranted(s)
      <3>1. pc[s] = "play" /\ at' = at
        BY <1>2, <2>2 DEF Process, Read, Start, Register, NodeGranted, NodeRefused, DoorRefused,
           Disconnected, EnterDoor, LeaveDoor, DoorFails, DoorInterrupted, NodeInterrupted, Logoff,
           Crash, GoTo, TypeOK
      <3> QED
        BY <1>2, <3>1 DEF Claims
    <2> QED
      BY <2>1, <2>2
  <1>3. CASE pc'[s] = "door" /\ Granted(s, k)'
    <2>1. DOMAIN << >> = {}
      OBVIOUS
    <2>2. DoorRefused(s) \/ EnterDoor(s) \/ Register(s)
      BY <1>3 DEF Process, Read, Start, NodeGranted, NodeRefused, DoorGranted,
         Disconnected, LeaveDoor, DoorFails, DoorInterrupted, NodeInterrupted, Logoff,
         Crash, GoTo, TypeOK
    <2>3. CASE DoorRefused(s)
      <3>1. replies'[s][k] = << >>
        BY <2>3, DoorAnswerIsOnly DEF DoorRefused
      <3> QED
        BY <1>3, <2>1, <3>1 DEF Granted
    <2>4. CASE EnterDoor(s)
      <3>1. replies'[s][k] = << >>
        BY <2>4, TalkIdle DEF EnterDoor, DoorIdle
      <3> QED
        BY <1>3, <2>1, <3>1 DEF Granted
    <2>5. CASE Register(s)
      BY <2>5 DEF Register
    <2> QED
      BY <2>2, <2>3, <2>4, <2>5
  <1> QED
    BY <1>1, <1>2, <1>3 DEF Claims

\* A step of the engine keeps to this.
LEMMA TalkEngine ==
  ASSUME TypeOK, NEW s \in Session, Engine(s), DoorTalk(s)
  PROVE  tty'[s] # "closed" => DoorTalk(s)'
  <1> SUFFICES ASSUME tty'[s] # "closed" PROVE DoorTalk(s)'
    OBVIOUS
  <1>1. HandleAcquire(s) \/ HandleRelease(s)
    BY DEF Engine, HandleExit, Kill, Unregister, TypeOK
  <1>2. /\ outbox[s] \in Seq(Message) /\ outbox[s] # << >> /\ outbox'[s] = Tail(outbox[s])
        /\ UNCHANGED <<pc, at, tty>>
    BY <1>1 DEF HandleAcquire, HandleRelease, Received, TypeOK
  <1>3. \A i \in DOMAIN outbox'[s] : /\ i + 1 \in DOMAIN outbox[s] /\ i \in Nat \ {0}
                                     /\ outbox'[s][i] = outbox[s][i + 1]
    BY ReceivedByStep
  <1>4. Len(outbox[s]) \in Nat /\ Len(outbox'[s]) = Len(outbox[s]) - 1 /\ 1 \in DOMAIN outbox[s]
    BY <1>2, HeadTailProperties, LenProperties, HeadIsFirst
  <1>5. Releases(s)' => Releases(s)
    BY <1>3 DEF Releases, DoorRelease
  <1>6. OneDoorRelease(s)'
    <2> SUFFICES ASSUME NEW i \in DOMAIN outbox'[s], NEW j \in DOMAIN outbox'[s],
                        DoorRelease(outbox'[s][i]), DoorRelease(outbox'[s][j])
                 PROVE  i = j
      BY DEF OneDoorRelease, DoorRelease
    <2>1. i + 1 = j + 1
      BY <1>3 DEF DoorTalk, OneDoorRelease
    <2> QED
      BY <1>3, <2>1
  <1>7. \A i \in DOMAIN outbox'[s] : DoorAsk(outbox'[s][i]) =>
          DoorAsk(outbox[s][i + 1]) /\ i = Len(outbox'[s]) /\ ~DoorAsk(outbox[s][1])
    <2> SUFFICES ASSUME NEW i \in DOMAIN outbox'[s], DoorAsk(outbox'[s][i])
                 PROVE  DoorAsk(outbox[s][i + 1]) /\ i = Len(outbox'[s]) /\ ~DoorAsk(outbox[s][1])
      OBVIOUS
    <2>1. DoorAsk(outbox[s][i + 1]) /\ i + 1 = Len(outbox[s]) /\ i + 1 # 1
      BY <1>3 DEF DoorTalk, DoorAsksLast
    <2> QED
      BY <1>3, <1>4, <2>1 DEF DoorTalk, DoorAsksLast
  <1>8. ASSUME \A k \in DoorLock : replies'[s][k] = replies[s][k]
        PROVE  DoorAsksLast(s)' /\ DoorAnswersOnce(s)'
    <2>1. DoorAsksLast(s)'
      BY <1>2, <1>3, <1>7, <1>8 DEF DoorTalk, DoorAsksLast, DoorAsk
    <2>2. DoorAnswersOnce(s)'
      BY <1>2, <1>5, <1>8 DEF DoorTalk, DoorAnswersOnce
    <2> QED
      BY <2>1, <2>2
  <1>9. DoorAsksLast(s)' /\ DoorAnswersOnce(s)'
    <2>1. CASE HandleRelease(s)
      BY <1>8, <2>1 DEF HandleRelease
    <2>2. CASE HandleAcquire(s)
      <3>1. PICK k \in Key, answer \in BOOLEAN :
              /\ 1 \in DOMAIN outbox[s] /\ outbox[s][1].method = "acquire" /\ outbox[s][1].key = k
              /\ replies'[s][k] = Append(replies[s][k], answer)
              /\ replies[s][k] \in Seq(BOOLEAN)
              /\ \A t \in Session, j \in Key :
                   t # s \/ j # k => replies'[t][j] = replies[t][j]
              /\ \/ answer = TRUE /\ locks' = [locks EXCEPT ![k] = s] /\ Grantable(s, k)
                 \/ answer = FALSE /\ locks' = locks /\ locks[k] \in Registered \ {s}
        BY <2>2, EngineAnswers
      <3>2. CASE k \notin DoorLock
        BY <1>8, <3>1, <3>2 DEF Key
      <3>3. CASE k \in DoorLock
        <4>1. /\ DoorAsk(outbox[s][1]) /\ pc[s] \in {"door", "gone"}
              /\ pc[s] = "door" => k = Lock("door", at[s])
              /\ \A j \in DoorLock : replies[s][j] = << >>
              /\ Len(outbox[s]) = 1
          BY <3>1, <3>3 DEF DoorAsk, DoorTalk, DoorAsksLast
        <4>2. DOMAIN outbox[s] = {1} /\ DOMAIN outbox'[s] = {}
          BY <1>2, <1>3, <4>1, LenProperties
        <4>3. DoorAsksLast(s)' /\ ~Releases(s)'
          BY <4>2 DEF DoorAsksLast, Releases
        <4>4. Len(replies'[s][k]) = 1
          BY <3>1, <3>3, <4>1
        <4>5. \A j \in DoorLock : j # k => replies'[s][j] = << >>
          BY <3>1, <4>1 DEF Key
        <4> QED
          BY <1>2, <4>1, <4>3, <4>4, <4>5 DEF DoorAnswersOnce
      <3> QED
        BY <3>2, <3>3
    <2> QED
      BY <1>1, <2>1, <2>2
  <1> QED
    BY <1>2, <1>5, <1>6, <1>9 DEF DoorTalk

\* A request frees no claimed node, and who gets a claim by it gets the lock.
LEMMA ClaimsAcquire ==
  ASSUME TypeOK, ClaimsHeld, NEW s \in Session, HandleAcquire(s)
  PROVE  ClaimsHeld'
  <1>1. PICK k \in Key, answer \in BOOLEAN :
          /\ 1 \in DOMAIN outbox[s] /\ outbox[s][1].method = "acquire" /\ outbox[s][1].key = k
          /\ replies'[s][k] = Append(replies[s][k], answer)
          /\ replies[s][k] \in Seq(BOOLEAN)
          /\ \A t \in Session, j \in Key :
               t # s \/ j # k => replies'[t][j] = replies[t][j]
          /\ \/ answer = TRUE /\ locks' = [locks EXCEPT ![k] = s] /\ Grantable(s, k)
             \/ answer = FALSE /\ locks' = locks /\ locks[k] \in Registered \ {s}
    BY EngineAnswers
  <1> SUFFICES ASSUME NEW t \in Session, NEW j \in DoorLock,
                      tty'[t] = "registered", Claims(t, j)'
               PROVE  locks'[j] = t
    BY DEF ClaimsHeld
  <1>2. UNCHANGED <<pc, at, tty>> /\ Engine(s) /\ j \in Key
    BY DEF HandleAcquire, Engine, Key
  <1>3. CASE Claims(t, j)
    <2>1. locks[j] = t /\ t \in Registered
      BY <1>2, <1>3 DEF ClaimsHeld, Registered
    <2> QED
      BY <1>1, <1>2, <2>1 DEF TypeOK, Grantable
  <1>4. CASE ~Claims(t, j)
    <2>1. t = s
      BY <1>2, <1>4, OthersStay DEF Claims, Granted, DoorRelease
    <2>2. ~(\E i \in DOMAIN outbox'[s] : DoorRelease(outbox'[s][i]) /\ outbox'[s][i].key = j)
      BY <1>2, <1>4, <2>1, ReceivedByStep DEF Claims
    <2>3. Granted(s, j)' /\ ~Granted(s, j)
      BY <1>2, <1>4, <2>1, <2>2 DEF Claims, DoorRelease
    <2>4. j = k
      BY <1>1, <1>2, <2>3 DEF Granted
    <2>5. answer = TRUE
      BY <1>1, <2>3, <2>4, AnswerAdded
    <2> QED
      BY <1>1, <1>2, <2>1, <2>4, <2>5 DEF TypeOK
  <1> QED
    BY <1>3, <1>4

\* A release frees a node that its sender claims by it, and by nothing else.
LEMMA ClaimsRelease ==
  ASSUME TypeOK, ClaimsHeld, NEW s \in Session, HandleRelease(s), DoorTalk(s)
  PROVE  ClaimsHeld'
  <1> DEFINE k == Head(outbox[s]).key
  <1>1. /\ UNCHANGED <<pc, at, tty, replies>> /\ Engine(s) /\ tty[s] = "registered"
        /\ locks' = [locks EXCEPT ![k] = None]
    BY DEF HandleRelease, Received, Engine
  <1>2. 1 \in DOMAIN outbox[s] /\ outbox[s][1].key = k /\ outbox[s][1].method = "release"
    <2>1. outbox[s] \in Seq(Message) /\ outbox[s] # << >>
      BY DEF HandleRelease, Received, TypeOK
    <2> QED
      BY <2>1, HeadIsFirst DEF HandleRelease, Received
  <1> HIDE DEF k
  <1>3. \A t \in Session, j \in DoorLock : Claims(t, j)' => Claims(t, j)
    <2> SUFFICES ASSUME NEW t \in Session, NEW j \in DoorLock, Claims(t, j)' PROVE Claims(t, j)
      OBVIOUS
    <2>1. CASE t # s
      BY <1>1, <2>1, OthersStay DEF Claims, Granted, DoorRelease
    <2>2. CASE t = s
      BY <1>1, <2>2, ReceivedByStep DEF Claims, Granted, DoorRelease
    <2> QED
      BY <2>1, <2>2
  <1> SUFFICES ASSUME NEW t \in Session, NEW j \in DoorLock,
                      tty'[t] = "registered", Claims(t, j)'
               PROVE  locks'[j] = t
    BY DEF ClaimsHeld
  <1>4. locks[j] = t /\ j \in Key
    BY <1>1, <1>3 DEF ClaimsHeld, Key
  <1>5. j # k
    <2> SUFFICES ASSUME j = k PROVE FALSE
      OBVIOUS
    <2>1. DoorRelease(outbox[s][1]) /\ Releases(s) /\ Claims(s, k)
      BY <1>2 DEF DoorRelease, Releases, Claims
    <2>2. t = s
      BY <1>1, <1>4, <2>1 DEF ClaimsHeld
    <2>3. DOMAIN << >> = {}
      OBVIOUS
    <2>4. \E i \in DOMAIN outbox'[s] : DoorRelease(outbox'[s][i])
      BY <1>1, <2>1, <2>2, <2>3 DEF Claims, Granted, DoorTalk, DoorAnswersOnce, DoorRelease
    <2>5. PICK i \in DOMAIN outbox'[s] : DoorRelease(outbox'[s][i])
      BY <2>4
    <2>6. i + 1 \in DOMAIN outbox[s] /\ i \in Nat \ {0} /\ DoorRelease(outbox[s][i + 1])
      BY <1>1, <2>5, ReceivedByStep
    <2> QED
      BY <1>2, <2>1, <2>6 DEF DoorTalk, OneDoorRelease
  <1> QED
    BY <1>1, <1>4, <1>5 DEF TypeOK

\* The sessions, uninterrupted, and the node invariant
DoorNodeInv ==
  /\ NodeInv
  /\ interrupts = 0 =>
       /\ \A s \in Session : tty[s] # "closed" => DoorTalk(s)
       /\ ClaimsHeld

\* A step of a session preserves the invariant.
LEMMA DoorProcess ==
  ASSUME DoorNodeInv, NodeInv', NEW s \in Session, Process(s)
  PROVE  DoorNodeInv'
  <1> SUFFICES ASSUME interrupts' = 0
               PROVE  /\ \A t \in Session : tty'[t] # "closed" => DoorTalk(t)'
                      /\ ClaimsHeld'
    BY DEF DoorNodeInv
  <1>1. TypeOK /\ Unanswered
    BY DEF DoorNodeInv, NodeInv
  <1>2. ~DoorInterrupted(s) /\ interrupts = 0
    <2>1. interrupts' = interrupts \/ DoorInterrupted(s)
      BY DEF Process, Read, Start, Register, NodeGranted, NodeRefused, DoorGranted, DoorRefused,
         Disconnected, EnterDoor, LeaveDoor, DoorFails, DoorInterrupted, NodeInterrupted, Logoff,
         Crash
    <2>2. DoorInterrupted(s) => interrupts' = interrupts + 1 /\ interrupts \in Nat
      BY <1>1, LocksAssumption DEF DoorInterrupted, TypeOK
    <2> QED
      BY <2>1, <2>2
  <1>3. locks' = locks /\ (tty' = tty \/ Register(s))
    BY DEF Process, Read, Start, Register, NodeGranted, NodeRefused, DoorGranted, DoorRefused,
       Disconnected, EnterDoor, LeaveDoor, DoorFails, DoorInterrupted, NodeInterrupted, Logoff,
       Crash
  <1>4. tty'[s] # "closed" => tty[s] # "closed"
    BY <1>3 DEF Register
  <1>5. \A t \in Session : tty[t] # "closed" => DoorTalk(t)
    BY <1>2 DEF DoorNodeInv
  <1>6. ASSUME NEW t \in Session, tty'[t] # "closed" PROVE DoorTalk(t)'
    <2>1. CASE t = s
      BY <1>1, <1>2, <1>4, <1>5, <1>6, <2>1, TalkProcess
    <2>2. CASE t # s
      BY <1>1, <1>5, <1>6, <2>2, OthersStay DEF DoorTalk, DoorAsksLast, DoorAnswersOnce,
         OneDoorRelease, Releases, DoorAsk, DoorRelease
    <2> QED
      BY <2>1, <2>2
  <1>7. ClaimsHeld'
    <2> SUFFICES ASSUME NEW t \in Session, NEW k \in DoorLock,
                        tty'[t] = "registered", Claims(t, k)'
                 PROVE  tty[t] = "registered" /\ Claims(t, k)
      BY <1>2, <1>3 DEF DoorNodeInv, ClaimsHeld
    <2>1. CASE t # s
      BY <1>1, <2>1, OthersStay DEF Claims, Granted, DoorRelease
    <2>2. CASE t = s /\ ~Register(s)
      <3>1. tty[s] = "registered"
        BY <1>3, <2>2
      <3> QED
        BY <1>1, <1>2, <1>5, <2>2, <3>1, ClaimsProcess
    <2>3. CASE t = s /\ Register(s)
      <3>1. /\ pc[s] \in {"off", "node", "gone"} /\ ~Releases(s)
            /\ UNCHANGED <<pc, at, outbox, replies>>
        BY <1>5, <2>3 DEF Register, DoorTalk
      <3> QED
        BY <2>3, <3>1 DEF Claims, Releases, DoorRelease
    <2> QED
      BY <2>1, <2>2, <2>3
  <1> QED
    BY <1>6, <1>7

\* So does a step of the engine.
LEMMA DoorEngine ==
  ASSUME DoorNodeInv, NodeInv', NEW s \in Session, Engine(s)
  PROVE  DoorNodeInv'
  <1> SUFFICES ASSUME interrupts' = 0
               PROVE  /\ \A t \in Session : tty'[t] # "closed" => DoorTalk(t)'
                      /\ ClaimsHeld'
    BY DEF DoorNodeInv
  <1>1. TypeOK
    BY DEF DoorNodeInv, NodeInv
  <1>2. interrupts = 0 /\ tty[s] = "registered"
    BY DEF Engine, HandleAcquire, HandleRelease, HandleExit, Kill, Unregister, Received
  <1>3. ClaimsHeld /\ \A t \in Session : tty[t] # "closed" => DoorTalk(t)
    BY <1>2 DEF DoorNodeInv
  <1>4. DoorTalk(s)
    BY <1>2, <1>3
  <1>5. ASSUME NEW t \in Session, tty'[t] # "closed" PROVE DoorTalk(t)'
    <2>1. CASE t = s
      BY <1>1, <1>4, <1>5, <2>1, TalkEngine
    <2>2. CASE t # s
      BY <1>1, <1>3, <1>5, <2>2, OthersStay DEF DoorTalk, DoorAsksLast, DoorAnswersOnce,
         OneDoorRelease, Releases, DoorAsk, DoorRelease
    <2> QED
      BY <2>1, <2>2
  <1>6. ClaimsHeld'
    <2>1. CASE HandleAcquire(s)
      BY <1>1, <1>3, <2>1, ClaimsAcquire
    <2>2. CASE HandleRelease(s)
      BY <1>1, <1>3, <1>4, <2>2, ClaimsRelease
    <2>3. CASE HandleExit(s) \/ Kill(s)
      <3>1. /\ tty'[s] = "closed" /\ UNCHANGED <<locks, pc, at, replies>>
            /\ \A t \in Session \ {s} : tty'[t] = tty[t] /\ outbox'[t] = outbox[t]
        BY <1>1, <2>3 DEF HandleExit, Kill, Unregister, TypeOK
      <3> QED
        BY <1>3, <3>1 DEF ClaimsHeld, Claims, Granted, DoorRelease
    <2> QED
      BY <2>1, <2>2, <2>3 DEF Engine
  <1> QED
    BY <1>5, <1>6

\* Nobody is at a door at first.
LEMMA DoorInit == Init => DoorNodeInv
  <1> SUFFICES ASSUME Init PROVE DoorNodeInv
    OBVIOUS
  <1>1. \A s \in Session : /\ pc[s] = "off" /\ outbox[s] = << >>
                           /\ \A k \in Key : replies[s][k] = << >>
    BY DEF Init
  <1>2. DOMAIN << >> = {}
    OBVIOUS
  <1>3. \A s \in Session : DoorTalk(s)
    BY <1>1, <1>2 DEF DoorTalk, DoorAsksLast, DoorAnswersOnce, OneDoorRelease, Releases, Key
  <1>4. ClaimsHeld
    BY <1>1, <1>2 DEF ClaimsHeld, Claims
  <1> QED
    BY <1>3, <1>4, NodeInvInit DEF DoorNodeInv

\* Every step preserves the invariant.
LEMMA DoorNext == DoorNodeInv /\ [Next]_vars => DoorNodeInv'
  <1> SUFFICES ASSUME DoorNodeInv, [Next]_vars PROVE DoorNodeInv'
    OBVIOUS
  <1>1. NodeInv'
    BY NodeInvNext DEF DoorNodeInv
  <1>2. CASE vars' = vars
    BY <1>1, <1>2 DEF vars, DoorNodeInv, DoorTalk, DoorAsksLast, DoorAnswersOnce, OneDoorRelease,
       Releases, DoorAsk, DoorRelease, ClaimsHeld, Claims, Granted
  <1>3. ASSUME NEW s \in Session, Process(s) PROVE DoorNodeInv'
    BY <1>1, <1>3, DoorProcess
  <1>4. ASSUME NEW s \in Session, Engine(s) PROVE DoorNodeInv'
    BY <1>1, <1>4, DoorEngine
  <1> QED
    BY <1>2, <1>3, <1>4 DEF Next, Finished

\* Two who play one node of a door hold one lock.
LEMMA DoorNodeInvImpliesDoorExclusive == DoorNodeInv => DoorExclusiveUninterrupted
  <1> SUFFICES ASSUME DoorNodeInv, interrupts = 0, NEW s \in Registered, NEW t \in Registered,
                      pc[s] = "play", pc[t] = "play", at[s] = at[t]
               PROVE  s = t
    BY DEF DoorExclusiveUninterrupted, DoorExclusive
  <1>1. Lock("door", at[s]) \in DoorLock
    BY LockIsKey DEF DoorNodeInv, NodeInv, TypeOK, Registered
  <1> QED
    BY <1>1 DEF DoorNodeInv, ClaimsHeld, Claims, Registered

\* As long as no wait at a door was interrupted, no two sessions that the engine knows play
\* one node of it.
THEOREM DoorNodesAreExclusive == Spec => []DoorExclusiveUninterrupted
  BY DoorInit, DoorNext, DoorNodeInvImpliesDoorExclusive, PTL DEF Spec
=============================================================================
