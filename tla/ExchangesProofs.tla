---------------------------- MODULE ExchangesProofs --------------------------
(* The properties of the exchanges' run that are proved for all values of the *)
(* constants of its parts: what is proved of a part's module holds of the     *)
(* part when it is the one that runs.                                         *)
EXTENDS MCExchanges, TLAPS

\* The proofs about a session process, of the variables as the parts use them
XP == INSTANCE SessionProofs WITH
  pipe <- x1, buffer <- x3,
  sent <- x2, taken <- x4, stack <- x5, calls <- x6, closed <- x7,
  made <- x2, kind <- x4, handlers <- x5, asking <- x6, gosubs <- x7, mixed <- x8,
  unopened <- x9, got <- x10,
  posts <- x1, msgs <- x2, source <- x3, trans <- x4, queue <- x5, last <- x6,
  netLast <- x7, pc <- x8, batch <- x9, keys <- x10, todo <- x11, put <- x12,
  faults <- x13, tagged <- x14, saves <- x15, cut <- x16,
  local <- x1, remote <- x2, active <- x3, term <- x4, asked <- x5, replied <- x6,
  heard <- x7, stage <- x8, requested <- x9, late <- x10, coding <- x11, toEnd <- x12,
  toHost <- x13, mine <- x14, yours <- x15, willing <- x16, whims <- x17,
  protocol <- x1, thread <- x2, waited <- x3, alive <- x4, transport <- x5, channel <- x6,
  wanted <- x7, auth <- x8, auths <- x9, login <- x10, peer <- x11, typed <- x12,
  inbox <- x13, data <- x14, passed <- x15

-----------------------------------------------------------------------------
(* The answers of the databases.                                              *)

\* While the part runs, its state satisfies the invariant of the module's proof.
DbOnExchange == part = "database" => XP!DbInv

\* The module is the same in the proofs as in the run: its initial states,
LEMMA ExchangeDbInit == D!Init => XP!D!Init
  BY DEF D!Init, XP!D!Init, D!Request, XP!D!Request, D!Event, XP!D!Event

\* and its steps.
LEMMA ExchangeDbNext == [D!Next]_D!vars => [XP!D!Next]_XP!D!vars
  BY DEF D!Next, XP!D!Next, D!vars, XP!D!vars, D!Request, XP!D!Request, D!HandlerSends,
           XP!D!HandlerSends, D!Event, XP!D!Event, D!MakeRequest, XP!D!MakeRequest,
           D!Read, XP!D!Read, D!NextItem, XP!D!NextItem, D!LeaveIteration,
           XP!D!LeaveIteration, D!Interrupt, XP!D!Interrupt, D!Resume, XP!D!Resume,
           D!Finished, XP!D!Finished, D!Running, XP!D!Running, D!Parts, XP!D!Parts,
           D!Flushed, XP!D!Flushed, D!ReadBuffered, XP!D!ReadBuffered, D!Receive,
           XP!D!Receive, D!Held, XP!D!Held, D!Waiting, XP!D!Waiting, D!Items,
           XP!D!Items, D!Accept, XP!D!Accept, D!GiveUp, XP!D!GiveUp, D!Last,
           XP!D!Last, D!Front, XP!D!Front

\* The invariant is kept.
LEMMA DbExchanges ==
  /\ Init => DbOnExchange
  /\ DbOnExchange /\ [Next]_vars => DbOnExchange'
  <1>1. XP!D!DbProxyAssumption
    BY DbProxyBounds DEF D!DbProxyAssumption, XP!D!DbProxyAssumption
  <1>2. Init => DbOnExchange
    <2> SUFFICES ASSUME Init, part = "database" PROVE XP!DbInv
      BY DEF DbOnExchange
    <2>1. D!Init
      BY DEF Init
    <2> QED
      BY <1>1, <2>1, ExchangeDbInit, XP!DbInit
  <1>3. DbOnExchange /\ [Next]_vars => DbOnExchange'
    <2> SUFFICES ASSUME DbOnExchange, [Next]_vars, part' = "database" PROVE XP!DbInv'
      BY DEF DbOnExchange
    <2>1. part = "database" /\ [D!Next]_D!vars
      BY DEF Next, vars, D!vars
    <2> QED
      BY <1>1, <2>1, ExchangeDbNext, XP!DbNext DEF DbOnExchange
  <1> QED
    BY <1>2, <1>3

\* A session whose scripts read each answer of a database to its end before they make another
\* request takes, for each request, the answer to that request (dbproxy.py:47-91).
THEOREM ExchangesOwnAnswer == Spec => []DbOwnAnswer
  <1>1. DbOnExchange => DbOwnAnswer
    BY DEF DbOnExchange, DbOwnAnswer, XP!DbInv, D!OwnAnswer
  <1> QED
    BY <1>1, DbExchanges, PTL DEF Spec

-----------------------------------------------------------------------------
(* The script stack and the events of a session.                              *)

\* While the part runs, its state satisfies the invariant of the module's proof,
SessionOnExchange == part = "session" => XP!SessionInv

\* and so the scripts that run are the end of the script stack.
StackOnExchange == part = "session" => S!StackIsCalls

\* The module is the same in the proofs as in the run: its initial states,
LEMMA ExchangeSessionInit == S!Init => XP!S!Init
  BY DEF S!Init, XP!S!Init, S!Kind, XP!S!Kind

\* and its steps.
LEMMA ExchangeSessionNext == [S!Next]_S!vars => [XP!S!Next]_XP!S!vars
  BY DEF S!Next, XP!S!Next, S!vars, XP!S!vars, S!Kind, XP!S!Kind, S!Command, XP!S!Command,
           S!Send, XP!S!Send, S!HangUp, XP!S!HangUp, S!Begin, XP!S!Begin,
           S!ScriptStep, XP!S!ScriptStep, S!ReadEvents, XP!S!ReadEvents,
           S!EndOfStack, XP!S!EndOfStack, S!Finished, XP!S!Finished, S!RunScript,
           XP!S!RunScript, S!Return, XP!S!Return, S!Fail, XP!S!Fail, S!Disconnect,
           XP!S!Disconnect, S!Gosub, XP!S!Gosub, S!GoTo, XP!S!GoTo, S!FlushEvent,
           XP!S!FlushEvent, S!ReadBuffered, XP!S!ReadBuffered, S!Wait, XP!S!Wait,
           S!Receive, XP!S!Receive, S!NothingComes, XP!S!NothingComes, S!TimeOut,
           XP!S!TimeOut, S!Called, XP!S!Called, S!Running, XP!S!Running,
           S!RefreshedIf, XP!S!RefreshedIf, S!Interrupted, XP!S!Interrupted,
           S!SomeInterrupted, XP!S!SomeInterrupted, S!Close, XP!S!Close, S!Take,
           XP!S!Take, S!Waiting, XP!S!Waiting, S!ReceiveBuffered,
           XP!S!ReceiveBuffered, S!ReceiveInfoReq, XP!S!ReceiveInfoReq,
           S!ReceiveGosub, XP!S!ReceiveGosub, S!ReceiveException,
           XP!S!ReceiveException, S!Resumed, XP!S!Resumed, S!Refreshed,
           XP!S!Refreshed, S!PushedBack, XP!S!PushedBack, S!Buffered, XP!S!Buffered,
           S!Enqueued, XP!S!Enqueued, S!Limit, XP!S!Limit, S!Last, XP!S!Last,
           S!Front, XP!S!Front

\* The invariant is kept, and a step does what else it must.
LEMMA SessionExchanges ==
  /\ Init => SessionOnExchange
  /\ SessionOnExchange /\ [Next]_vars =>
       /\ SessionOnExchange'
       /\ part = "session" => S!EventsInOrder /\ S!InterruptedIsRefreshed
  <1>1. XP!S!SessionAssumption
    BY SessionBounds DEF S!SessionAssumption, XP!S!SessionAssumption, S!Kind, XP!S!Kind
  <1>2. Init => SessionOnExchange
    <2> SUFFICES ASSUME Init, part = "session" PROVE XP!SessionInv
      BY DEF SessionOnExchange
    <2>1. S!Init
      BY DEF Init
    <2> QED
      BY <1>1, <2>1, ExchangeSessionInit, XP!SessionInit
  <1>3. ASSUME SessionOnExchange, [Next]_vars
        PROVE  /\ SessionOnExchange'
               /\ part = "session" => S!EventsInOrder /\ S!InterruptedIsRefreshed
    <2> SUFFICES ASSUME part = "session" \/ part' = "session"
                 PROVE  XP!SessionInv' /\ S!EventsInOrder /\ S!InterruptedIsRefreshed
      BY DEF SessionOnExchange
    <2>1. part = "session" /\ [S!Next]_S!vars
      BY <1>3 DEF Next, vars, S!vars
    <2>2. XP!SessionKept
      BY <1>1, <1>3, <2>1, ExchangeSessionNext, XP!SessionNext DEF SessionOnExchange
    <2>3. S!EventsInOrder
      BY <2>2 DEF XP!SessionKept, S!EventsInOrder, XP!S!EventsInOrder, S!Last, XP!S!Last,
           S!Front, XP!S!Front
    <2>4. S!InterruptedIsRefreshed
      BY <2>2 DEF XP!SessionKept, S!InterruptedIsRefreshed, XP!S!InterruptedIsRefreshed,
           S!Interrupted,
           XP!S!Interrupted, S!Last, XP!S!Last, S!Front, XP!S!Front
    <2> QED
      BY <2>2, <2>3, <2>4 DEF XP!SessionKept
  <1> QED
    BY <1>2, <1>3

\* Scripts that call each other, are interrupted by an event and fail: the script stack is
\* their calls, what one does not take of the events of a kind comes to the next in
\* order, and who was interrupted and still waits finds a refresh (session.py:283).
THEOREM ExchangesScriptsNest == Spec => ScriptsNest
  <1>1. SessionOnExchange => StackOnExchange
    BY XP!StackOfCalls DEF SessionOnExchange, StackOnExchange, S!StackIsCalls, XP!S!StackIsCalls
  <1>2. SessionOnExchange /\ [Next]_vars => SessionOnExchange'
    BY SessionExchanges
  <1>3. SessionOnExchange /\ [Next]_vars /\ StackOnExchange'
          => [part = "session" =>
               S!StackIsCalls' /\ S!EventsInOrder /\ S!InterruptedIsRefreshed]_vars
    BY SessionExchanges DEF StackOnExchange, Next
  <1>4. Init => SessionOnExchange
    BY SessionExchanges
  <1> QED
    BY <1>1, <1>2, <1>3, <1>4, PTL DEF Spec, ScriptsNest

-----------------------------------------------------------------------------
(* The message network.                                                       *)

\* While the part runs, its state satisfies the invariant of the module's proof.
NetOnExchange == part = "network" => XP!OnceInv /\ XP!NetBounded

\* The module is the same in the proofs as in the run: its initial states,
LEMMA ExchangeNetInit == N!Init => XP!N!Init
  BY DEF N!Init, XP!N!Init, N!Board, XP!N!Board, N!None, XP!N!None

\* and its steps.
LEMMA ExchangeNetNext == [N!Next]_N!vars => [XP!N!Next]_XP!N!vars
  <1> USE DEF N!saving, XP!N!saving
  <1>1. \A b \in N!Board : \A p : N!UserPosts(b, p) => XP!N!UserPosts(b, p)
    BY DEF N!UserPosts, XP!N!UserPosts, N!Save, XP!N!Save, N!None, XP!N!None, N!memory,
           XP!N!memory
  <1>2. \A r \in x12 : N!HubSaves(r) => XP!N!HubSaves(r)
    BY DEF N!HubSaves, XP!N!HubSaves, N!Save, XP!N!Save, N!memory, XP!N!memory
  <1>3. \A r \in x12 : N!HubRecords(r) => XP!N!HubRecords(r)
    BY DEF N!HubRecords, XP!N!HubRecords, N!Answered, XP!N!Answered, N!With, XP!N!With, N!Rest,
           XP!N!Rest, N!Min, XP!N!Min, N!memory, XP!N!memory
  <1>a. \A b, i : N!UserSaves(b, i) => XP!N!UserSaves(b, i)
    BY DEF N!UserSaves, XP!N!UserSaves, N!memory, XP!N!memory
  <1>b. \A b, i : N!SaveIsCut(b, i) => XP!N!SaveIsCut(b, i)
    BY DEF N!SaveIsCut, XP!N!SaveIsCut, N!memory, XP!N!memory
  <1>c. \A r \in x12 : N!HubTags(r) => XP!N!HubTags(r)
    BY DEF N!HubTags, XP!N!HubTags, N!memory, XP!N!memory
  <1>d. \A m \in Member : N!Stop(m) => XP!N!Stop(m)
    BY DEF N!Stop, XP!N!Stop, N!Blank, XP!N!Blank
  <1>e. \A m \in Member : N!OpenLast(m) => XP!N!OpenLast(m)
    BY DEF N!OpenLast, XP!N!OpenLast, N!Blank, XP!N!Blank
  <1>f. \A b \in N!Board : N!Readable(b) = XP!N!Readable(b)
    BY DEF N!Readable, XP!N!Readable
  <1>4. \A m \in Member : N!Pull(m) => XP!N!Pull(m)
    BY DEF N!Pull, XP!N!Pull, N!ToPublish, XP!N!ToPublish, N!Answers, XP!N!Answers, N!Pending,
           XP!N!Pending, N!Max, XP!N!Max, N!Min, XP!N!Min, N!Cardinality, XP!N!Cardinality,
           N!Blank, XP!N!Blank
  <1>5. \A m \in Member : N!PullFails(m) => XP!N!PullFails(m)
    BY DEF N!PullFails, XP!N!PullFails, N!ToPublish, XP!N!ToPublish, N!Blank, XP!N!Blank
  <1>6. \A m \in Member : N!Store(m) => XP!N!Store(m)
    BY DEF N!Store, XP!N!Store, N!Save, XP!N!Save, N!LocalParent, XP!N!LocalParent, N!Min,
           XP!N!Min, N!None, XP!N!None
  <1>7. \A m \in Member : N!Record(m) => XP!N!Record(m)
    BY DEF N!Record, XP!N!Record, N!With, XP!N!With, N!Rest, XP!N!Rest, N!Min, XP!N!Min, N!Max,
           XP!N!Max
  <1>8. \A m \in Member : N!WriteLast(m) => XP!N!WriteLast(m)
    BY DEF N!WriteLast, XP!N!WriteLast, N!ToPublish, XP!N!ToPublish
  <1>9. \A m \in Member : N!Push(m) => XP!N!Push(m)
    BY DEF N!Push, XP!N!Push, N!HubParents, XP!N!HubParents, N!Min, XP!N!Min, N!None, XP!N!None
  <1>10. \A m \in Member : N!PushFails(m) => XP!N!PushFails(m)
    BY DEF N!PushFails, XP!N!PushFails, N!Rest, XP!N!Rest, N!Min, XP!N!Min
  <1>11. \A m \in Member : N!Sleep(m) => XP!N!Sleep(m)
    BY DEF N!Sleep, XP!N!Sleep
  <1>12. \A m \in Member : N!Crash(m) => XP!N!Crash(m)
    BY DEF N!Crash, XP!N!Crash
  <1>13. N!Board = XP!N!Board
    BY DEF N!Board, XP!N!Board
  <1> SUFFICES ASSUME N!Next PROVE XP!N!Next
    BY DEF N!vars, XP!N!vars, N!memory, XP!N!memory
  <1>14. CASE \E b \in N!Board : \E p \in {N!None} \cup N!Readable(b) : N!UserPosts(b, p)
    <2>1. PICK b \in N!Board : \E p \in {N!None} \cup N!Readable(b) : N!UserPosts(b, p)
      BY <1>14
    <2>2. \E p \in {XP!N!None} \cup XP!N!Readable(b) : XP!N!UserPosts(b, p)
      BY <1>1, <1>f, <2>1 DEF N!None, XP!N!None
    <2> QED
      BY <1>13, <2>2 DEF XP!N!Next
  <1>15. CASE N!HubStep
    <2>1. XP!N!HubStep
      BY <1>2, <1>3, <1>15, <1>c DEF N!HubStep, XP!N!HubStep
    <2> QED
      BY <2>1 DEF XP!N!Next
  <1>16. CASE \E m \in Member : N!MemberStep(m) \/ N!PullFails(m) \/ N!PushFails(m) \/ N!Crash(m)
    <2> SUFFICES ASSUME NEW m \in Member,
                        N!MemberStep(m) \/ N!PullFails(m) \/ N!PushFails(m) \/ N!Crash(m)
                 PROVE  \/ XP!N!MemberStep(m) \/ XP!N!PullFails(m)
                        \/ XP!N!PushFails(m) \/ XP!N!Crash(m)
      BY <1>16 DEF XP!N!Next
    <2> QED
      BY <1>4, <1>5, <1>6, <1>7, <1>8, <1>9, <1>10, <1>11, <1>12, <1>d, <1>e
         DEF N!MemberStep, XP!N!MemberStep
  <1>17. CASE \E a \in x15 : N!UserSaves(a[1], a[2]) \/ N!SaveIsCut(a[1], a[2])
    BY <1>17, <1>a, <1>b DEF XP!N!Next
  <1> QED
    BY <1>14, <1>15, <1>16, <1>17 DEF N!Next

\* The invariant is kept.
LEMMA NetExchanges ==
  /\ Init => NetOnExchange
  /\ NetOnExchange /\ [Next]_vars => NetOnExchange'
  <1>1. XP!N!MsgNetAssumption
    BY MsgNetBounds DEF N!MsgNetAssumption, XP!N!MsgNetAssumption
  <1>2. Init => NetOnExchange
    <2> SUFFICES ASSUME Init, part = "network" PROVE XP!OnceInv /\ XP!NetBounded
      BY DEF NetOnExchange
    <2>1. N!Init
      BY DEF Init
    <2> QED
      BY <1>1, <2>1, ExchangeNetInit, XP!OnceInit, XP!NetBoundedInit
  <1>3. NetOnExchange /\ [Next]_vars => NetOnExchange'
    <2> SUFFICES ASSUME NetOnExchange, [Next]_vars, part' = "network"
                 PROVE  (XP!OnceInv /\ XP!NetBounded)'
      BY DEF NetOnExchange
    <2>1. part = "network" /\ [N!Next]_N!vars
      BY DEF Next, vars, N!vars, N!memory, N!saving
    <2> QED
      BY <1>1, <2>1, ExchangeNetNext, XP!OnceNext, XP!NetBoundedNext DEF NetOnExchange, XP!OnceInv
  <1> QED
    BY <1>2, <1>3

\* On every board of a message network a message is saved as a reply to no message or to the
\* one that its author replied to, by whatever numbers they go there; and `trans' says which
\* message of the hub is which (msgpoll.py:216-259, 275-319; msgserve.py:224-263).
THEOREM ExchangesThreadsFaithful == Spec => []NetThreadsFaithful
  <1>1. NetOnExchange => NetThreadsFaithful
    <2> SUFFICES ASSUME part = "network", XP!OnceInv PROVE N!ThreadsFaithful
      BY DEF NetOnExchange, NetThreadsFaithful
    <2>1. XP!N!ThreadsFaithful
      BY XP!NetFaithful DEF XP!OnceInv
    <2> QED
      BY <2>1 DEF N!ThreadsFaithful, XP!N!ThreadsFaithful, N!Board, XP!N!Board, N!None, XP!N!None
  <1> QED
    BY <1>1, NetExchanges, PTL DEF Spec

\* What a member's user posts stays queued until the hub has it, whatever fails between, from
\* the moment that it is queued: a session that is killed between the save and the queue
\* leaves it out.  While nothing fails, no board saves a message twice, the member that it
\* came from included (msgbase.py:140-211, msgpoll.py:255-319, msgserve.py:176-263).
THEOREM ExchangesExactlyOnce == Spec => []NetExactlyOnce
  <1>1. NetOnExchange => NetExactlyOnce
    <2> SUFFICES ASSUME part = "network", XP!OnceInv PROVE N!QueuedOrPublished /\ N!SavedOnce
      BY DEF NetOnExchange, NetExactlyOnce
    <2>1. XP!N!QueuedOrPublished /\ XP!N!SavedOnce
      BY XP!OnceSafe
    <2>2. N!QueuedOrPublished
      BY <2>1 DEF N!QueuedOrPublished, XP!N!QueuedOrPublished, N!PostsOf, XP!N!PostsOf,
                  N!On, XP!N!On
    <2>3. N!SavedOnce
      BY <2>1 DEF N!SavedOnce, XP!N!SavedOnce, N!On, XP!N!On, N!Board, XP!N!Board,
                  N!Cardinality, XP!N!Cardinality
    <2> QED
      BY <2>2, <2>3
  <1> QED
    BY <1>1, NetExchanges, PTL DEF Spec

-----------------------------------------------------------------------------
(* The two ends of a telnet connection.                                       *)

\* While the part runs, its state satisfies the invariant of the module's proof.
TelnetOnExchange == part = "telnet" => XP!TelnetInv

\* The module is the same in the proofs as in the run: its initial states,
LEMMA ExchangeTelnetInit == T!Init => XP!T!Init
  BY DEF T!Init, XP!T!Init, T!Option, XP!T!Option

\* and its steps.
LEMMA ExchangeTelnetNext == [T!Next]_T!vars => [XP!T!Next]_XP!T!vars
  <1>1. T!HostReceive => XP!T!HostReceive
    BY DEF T!HostReceive, XP!T!HostReceive, T!server, XP!T!server, T!thread, XP!T!thread, T!end,
           XP!T!end, T!Note, XP!T!Note, T!Reply, XP!T!Reply, T!GrantedDo, XP!T!GrantedDo,
           T!DoReply, XP!T!DoReply, T!HandleDo, XP!T!HandleDo, T!HandleDontInsists,
           XP!T!HandleDontInsists, T!HandleDont, XP!T!HandleDont, T!WillReply, XP!T!WillReply,
           T!HandleWill, XP!T!HandleWill, T!HandleWontForgets, XP!T!HandleWontForgets,
           T!HandleWont, XP!T!HandleWont, T!Decode, XP!T!Decode, T!Received, XP!T!Received,
           T!UnsupportedWill, XP!T!UnsupportedWill
  <1>2. T!RefuseEcho => XP!T!RefuseEcho
    BY DEF T!RefuseEcho, XP!T!RefuseEcho, T!Received, XP!T!Received, T!server, XP!T!server,
           T!thread, XP!T!thread, T!end, XP!T!end
  <1>3. T!Banner => XP!T!Banner
    BY DEF T!Banner, XP!T!Banner, T!BannerRequests, XP!T!BannerRequests, T!server, XP!T!server,
           T!end, XP!T!end, T!Reply, XP!T!Reply, T!Detected, XP!T!Detected, T!AfterStage,
           XP!T!AfterStage
  <1>4. T!Negotiated => XP!T!Negotiated
    BY DEF T!Negotiated, XP!T!Negotiated, T!Detected, XP!T!Detected, T!AfterStage,
           XP!T!AfterStage, T!server, XP!T!server, T!end, XP!T!end
  <1>5. T!Spawn => XP!T!Spawn
    BY DEF T!Spawn, XP!T!Spawn, T!Binary, XP!T!Binary, T!server, XP!T!server, T!end, XP!T!end,
           T!Reply, XP!T!Reply
  <1>6. T!GiveUp => XP!T!GiveUp
    BY DEF T!GiveUp, XP!T!GiveUp, T!Detected, XP!T!Detected, T!server, XP!T!server, T!end,
           XP!T!end
  <1>7. T!TimePasses => XP!T!TimePasses
    BY DEF T!TimePasses, XP!T!TimePasses, T!server, XP!T!server, T!end, XP!T!end
  <1>8. T!EndReceive => XP!T!EndReceive
    BY DEF T!EndReceive, XP!T!EndReceive, T!Say, XP!T!Say, T!Consent, XP!T!Consent, T!HearDo,
           XP!T!HearDo, T!HearWill, XP!T!HearWill, T!HearDont, XP!T!HearDont, T!HearWont,
           XP!T!HearWont, T!HearSb, XP!T!HearSb, T!server, XP!T!server, T!thread, XP!T!thread,
           T!end, XP!T!end, T!Option, XP!T!Option
  <1>9. T!Whim => XP!T!Whim
    BY DEF T!Whim, XP!T!Whim, T!MayChange, XP!T!MayChange, T!Refuse, XP!T!Refuse, T!Offer,
           XP!T!Offer, T!Demand, XP!T!Demand, T!Say, XP!T!Say, T!Consent, XP!T!Consent, T!server,
           XP!T!server, T!thread, XP!T!thread, T!end, XP!T!end, T!Quiet, XP!T!Quiet
  <1>10. T!Finished => XP!T!Finished
    BY DEF T!Finished, XP!T!Finished, T!Quiet, XP!T!Quiet, T!vars, XP!T!vars, T!server,
           XP!T!server, T!thread, XP!T!thread, T!end, XP!T!end
  <1> SUFFICES ASSUME T!Next PROVE XP!T!Next
    BY DEF T!vars, XP!T!vars, T!server, XP!T!server, T!thread, XP!T!thread, T!end, XP!T!end
  <1> QED
    BY <1>1, <1>2, <1>3, <1>4, <1>5, <1>6, <1>7, <1>8, <1>9, <1>10 DEF T!Next, XP!T!Next

\* The invariant is kept.
LEMMA TelnetExchanges ==
  /\ Init => TelnetOnExchange
  /\ TelnetOnExchange /\ [Next]_vars => TelnetOnExchange'
  <1>1. XP!T!TelnetAssumption
    BY TelnetBounds DEF T!TelnetAssumption, XP!T!TelnetAssumption, T!Option, XP!T!Option
  <1>2. Init => TelnetOnExchange
    <2> SUFFICES ASSUME Init, part = "telnet" PROVE XP!TelnetInv
      BY DEF TelnetOnExchange
    <2>1. T!Init
      BY DEF Init
    <2> QED
      BY <1>1, <2>1, ExchangeTelnetInit, XP!TelnetInit
  <1>3. TelnetOnExchange /\ [Next]_vars => TelnetOnExchange'
    <2> SUFFICES ASSUME TelnetOnExchange, [Next]_vars, part' = "telnet" PROVE XP!TelnetInv'
      BY DEF TelnetOnExchange
    <2>1. part = "telnet" /\ [T!Next]_T!vars
      BY DEF Next, vars, T!vars, T!server, T!thread, T!end
    <2> QED
      BY <1>1, <2>1, ExchangeTelnetNext, XP!TelnetNext DEF TelnetOnExchange
  <1> QED
    BY <1>2, <1>3

\* When everything said has been heard, both ends of a telnet connection think the same of the
\* options for which each tells the other of a change (telnet.py:278-754, 846-869).
THEOREM ExchangesTelnetAgreement == Spec => []TelnetAgreement
  <1>1. TelnetOnExchange => TelnetAgreement
    <2> SUFFICES ASSUME part = "telnet", XP!TelnetInv PROVE T!Agreement
      BY DEF TelnetOnExchange, TelnetAgreement
    <2>1. XP!T!Agreement
      BY XP!TelnetAgrees
    <2> QED
      BY <2>1 DEF T!Agreement, XP!T!Agreement, T!Quiet, XP!T!Quiet
  <1> QED
    BY <1>1, TelnetExchanges, PTL DEF Spec

-----------------------------------------------------------------------------
(* The connect thread of the other servers.                                   *)

\* While the part runs, its state satisfies the invariant of the module's proof.
ConnectOnExchange == part = "connect" => XP!ConnectInv

\* The module is the same in the proofs as in the run: its initial states,
LEMMA ExchangeConnectInit == C!Init => XP!C!Init
  BY DEF C!Init, XP!C!Init, C!NoLogin, XP!C!NoLogin, C!NotYet, XP!C!NotYet

\* and its steps.
LEMMA ExchangeConnectNext == [C!Next]_C!vars => [XP!C!Next]_XP!C!vars
  <1>1. ASSUME NEW u PROVE C!CheckAuth(u) => XP!C!CheckAuth(u)
    BY DEF C!CheckAuth, XP!C!CheckAuth, C!IsSsh, XP!C!IsSsh, C!NoVerify, XP!C!NoVerify,
           C!dataVars, XP!C!dataVars
  <1>2. /\ C!OpenChannel => XP!C!OpenChannel
        /\ C!ShellRequest => XP!C!ShellRequest
        /\ C!SubsystemRequest => XP!C!SubsystemRequest
        /\ C!HangUp => XP!C!HangUp
    BY DEF C!OpenChannel, XP!C!OpenChannel, C!ShellRequest, XP!C!ShellRequest, C!SubsystemRequest,
           XP!C!SubsystemRequest, C!HangUp, XP!C!HangUp, C!IsSsh, XP!C!IsSsh, C!dataVars,
           XP!C!dataVars
  <1>3. C!SendString => XP!C!SendString
    BY DEF C!SendString, XP!C!SendString, C!Strings, XP!C!Strings, C!sshVars, XP!C!sshVars
  <1>4. /\ C!StartServer => XP!C!StartServer
        /\ C!Accept => XP!C!Accept
        /\ C!NoChannel => XP!C!NoChannel
    BY DEF C!StartServer, XP!C!StartServer, C!Accept, XP!C!Accept, C!NoChannel, XP!C!NoChannel,
           C!TimeLeft, XP!C!TimeLeft, C!Deactivate, XP!C!Deactivate, C!sshVars, XP!C!sshVars,
           C!dataVars, XP!C!dataVars
  <1>5. /\ C!Detected => XP!C!Detected
        /\ C!NotDetected => XP!C!NotDetected
    BY DEF C!Detected, XP!C!Detected, C!NotDetected, XP!C!NotDetected, C!IsActive, XP!C!IsActive,
           C!TimeLeft, XP!C!TimeLeft, C!Deactivate, XP!C!Deactivate, C!sshVars, XP!C!sshVars,
           C!dataVars, XP!C!dataVars
  <1>6. /\ C!SetOptions => XP!C!SetOptions
        /\ C!Read => XP!C!Read
        /\ C!Take => XP!C!Take
    BY DEF C!SetOptions, XP!C!SetOptions, C!Read, XP!C!Read, C!Take, XP!C!Take, C!Deactivate,
           XP!C!Deactivate, C!sshVars, XP!C!sshVars, C!dataVars, XP!C!dataVars
  <1>7. /\ C!Parse => XP!C!Parse
        /\ C!CheckLogin => XP!C!CheckLogin
        /\ C!NoData => XP!C!NoData
        /\ C!TooMuchData => XP!C!TooMuchData
    BY DEF C!Parse, XP!C!Parse, C!CheckLogin, XP!C!CheckLogin, C!NoData, XP!C!NoData,
           C!TooMuchData, XP!C!TooMuchData, C!Account,
           XP!C!Account, C!IsActive, XP!C!IsActive, C!Deactivate, XP!C!Deactivate, C!sshVars,
           XP!C!sshVars, C!dataVars, XP!C!dataVars
  <1>8. /\ C!Spawn => XP!C!Spawn
        /\ C!Wait => XP!C!Wait
    BY DEF C!Spawn, XP!C!Spawn, C!Wait, XP!C!Wait, C!Deactivate, XP!C!Deactivate, C!sshVars,
           XP!C!sshVars, C!dataVars, XP!C!dataVars
  <1>9. /\ C!LoopReceive => XP!C!LoopReceive
        /\ C!LoopShutDown => XP!C!LoopShutDown
    BY DEF C!LoopReceive, XP!C!LoopReceive, C!LoopShutDown, XP!C!LoopShutDown, C!IsActive,
           XP!C!IsActive, C!ShutDown, XP!C!ShutDown, C!sshVars, XP!C!sshVars, C!dataVars,
           XP!C!dataVars
  <1>10. C!ConnectStep => XP!C!ConnectStep
    BY <1>4, <1>5, <1>6, <1>7, <1>8 DEF C!ConnectStep, XP!C!ConnectStep
  <1>11. C!Finished => XP!C!Finished
    BY DEF C!Finished, XP!C!Finished, C!vars, XP!C!vars
  <1>12. C!Account = XP!C!Account
    BY DEF C!Account, XP!C!Account
  <1> SUFFICES ASSUME C!Next PROVE XP!C!Next
    BY DEF C!vars, XP!C!vars
  <1> QED
    BY <1>1, <1>2, <1>3, <1>7, <1>8, <1>9, <1>10, <1>11, <1>12 DEF C!Next, XP!C!Next

\* The invariant is kept.
LEMMA ConnectExchanges ==
  /\ Init => ConnectOnExchange
  /\ ConnectOnExchange /\ [Next]_vars => ConnectOnExchange'
  <1>1. XP!C!ConnectAssumption
    BY ConnectBounds DEF C!ConnectAssumption, XP!C!ConnectAssumption
  <1>2. Init => ConnectOnExchange
    <2> SUFFICES ASSUME Init, part = "connect" PROVE XP!ConnectInv
      BY DEF ConnectOnExchange
    <2>1. C!Init
      BY DEF Init
    <2> QED
      BY <1>1, <2>1, ExchangeConnectInit, XP!ConnectInit
  <1>3. ConnectOnExchange /\ [Next]_vars => ConnectOnExchange'
    <2> SUFFICES ASSUME ConnectOnExchange, [Next]_vars, part' = "connect" PROVE XP!ConnectInv'
      BY DEF ConnectOnExchange
    <2>1. part = "connect" /\ [C!Next]_C!vars
      BY DEF Next, vars, C!vars
    <2> QED
      BY <1>1, <2>1, ExchangeConnectNext, XP!ConnectNext DEF ConnectOnExchange
  <1> QED
    BY <1>2, <1>3

-----------------------------------------------------------------------------
\* What each part keeps is what its module says: answers and events in the pipe, the numbers of
\* a network, options, and what a connect thread has of its peer (db.py, session.py,
\* msgpoll.py, telnet.py, ssh.py, rlogin.py).
THEOREM ExchangesTypeCorrect == Spec => []TypeOK
  <1>1. DbOnExchange => (part = "database" => D!TypeOK)
    BY DEF DbOnExchange, XP!DbInv, D!TypeOK, XP!D!TypeOK, D!Event, XP!D!Event, D!Request,
           XP!D!Request, D!Part, XP!D!Part, D!Answer, XP!D!Answer, D!Ask, XP!D!Ask
  <1>2. SessionOnExchange => (part = "session" => S!TypeOK)
    BY DEF SessionOnExchange, XP!SessionInv, S!TypeOK, XP!S!TypeOK, S!Event, XP!S!Event, S!Kind,
           XP!S!Kind, S!Command, XP!S!Command, S!Call, XP!S!Call
  <1>3. NetOnExchange => (part = "network" => N!TypeOK)
    <2> SUFFICES ASSUME part = "network", XP!OnceInv, XP!NetBounded PROVE N!TypeOK
      BY DEF NetOnExchange
    <2>1. XP!N!MsgNetAssumption
      BY MsgNetBounds DEF N!MsgNetAssumption, XP!N!MsgNetAssumption
    <2>2. XP!N!TypeOK
      BY <2>1, XP!NetTyped DEF XP!OnceInv
    <2> QED
      BY <2>2 DEF N!TypeOK, XP!N!TypeOK, N!Board, XP!N!Board, N!Post, XP!N!Post, N!Saved,
                  XP!N!Saved, N!Blank, XP!N!Blank,
                  N!Message, XP!N!Message, N!Request, XP!N!Request
  <1>4. TelnetOnExchange => (part = "telnet" => T!TypeOK)
    BY DEF TelnetOnExchange, XP!TelnetInv, T!TypeOK, XP!T!TypeOK, T!Option, XP!T!Option,
           T!Command, XP!T!Command, T!Verb, XP!T!Verb
  <1>5. ConnectOnExchange => (part = "connect" => C!TypeOK)
    BY DEF ConnectOnExchange, XP!ConnectInv, C!TypeOK, XP!C!TypeOK, C!Strings, XP!C!Strings,
           C!Login, XP!C!Login, C!Account, XP!C!Account
  <1>6. DbOnExchange /\ SessionOnExchange /\ NetOnExchange /\ TelnetOnExchange /\ ConnectOnExchange
          => TypeOK
    BY <1>1, <1>2, <1>3, <1>4, <1>5 DEF TypeOK
  <1>7. SessionOnExchange /\ [Next]_vars => SessionOnExchange'
    BY SessionExchanges
  <1>8. Init => SessionOnExchange
    BY SessionExchanges
  <1> QED
    BY <1>6, <1>7, <1>8, DbExchanges, NetExchanges, TelnetExchanges, ConnectExchanges, PTL DEF Spec
=============================================================================
