----------------------------- MODULE BoardProofs -----------------------------
(* The properties of the board's run, for all values of the constants of its  *)
(* parts: what is proved of each part's module holds of the part when it is    *)
(* the one that runs.                                                         *)
EXTENDS MCBoard, TLAPS

\* The proofs about clients, of the variables as the parts use them
CP == INSTANCE ClientProofs WITH
  now <- x1, banned <- x2, attempts <- x3, tries <- x4, accepted <- x5,
  connecting <- x1, buffers <- x2, send_buffer <- x3, found <- x4, pc <- x5,
  ready_bytes <- x6, arg <- x7, written <- x8, before <- x9, received <- x10,
  kind <- x1, stage <- x2, child <- x3, blocked <- x4, size <- x5, winsize <- x6,
  pipe <- x7, input <- x8, refresh <- x9, typed <- x10, pty <- x11, consumed <- x12,
  resizes <- x13, gosubs <- x14,
  length <- x1, idx <- x2, shift <- x3, drawn <- x4, lit <- x5, stale <- x6, unsound <- x7,
  lines <- x1, position <- x2, page <- x3,
  scrolling <- x1, content <- x2, scrolled <- x3, pos <- x4, screen <- x5, cursor <- x6

\* and those about the shared databases
MP == INSTANCE MsgBaseProofs WITH
  SharedLocks <- TRUE, MaxLines <- MaxOneliners,
  msgs <- x1, index <- x2, trans <- x3, queue <- x4, lock <- x5, saves <- x6,
  left <- x7, cuts <- x8, cut <- x9, astray <- x10, adrift <- x11,
  users <- x1, members <- x2, script <- x3, db <- x4, tries <- x5, count <- x6, own <- x7,
  tgt <- x8, stale <- x9, tainted <- x10,
  shroo_ms_enabled <- x1, udb <- x2, wall <- x3, lines <- x4, visits <- x5, doing <- x6,
  thread <- x7, dirty <- x8, oneliner <- x9, read <- x10, disturbed <- x11

\* and those about scripts
SP == INSTANCE ScriptProofs WITH
  Sysop <- BySysop, Anonymous <- ByAnonymous, Tag <- ReaderTag, Posts <- ReaderPosts,
  table <- x1, votes <- x2, at <- x3, copy <- x4, choice <- x5, ops <- x6, shuffled <- x7,
  spoiled <- x8,
  disk <- x1, record <- x2, flagged <- x3, dirs <- x4, listed <- x5, drawn <- x6,
  steady <- x7, queue <- x8, remote <- x9, fresh <- x10,
  msgs <- x1, priv <- x2, posts <- x3, readmsgs <- x4, subscription <- x5, area <- x6,
  hidden <- x7, lists <- x8, reading <- x9, position <- x10, draft <- x11, entries <- x12,
  known <- x13, deleted <- x14,
  where <- x1, sessions <- x2, calls <- x3, pipe <- x4, buffered <- x5, answers <- x6,
  bounds <- x7, unheard <- x8, mixed <- x9

-----------------------------------------------------------------------------
(* The message base.                                                          *)

\* While the part runs, its state satisfies the invariant of the module's proof.
MsgBaseOnBoard == part = "msgbase" => MP!MsgBaseInv

\* The module is the same in the proofs as on the board: its initial states,
LEMMA BoardMsgBaseInit == M!Init => MP!Init
  BY DEF M!Init, MP!Init, M!Key, MP!Key, M!Lock, MP!Lock, M!Public, MP!Public

\* and its steps.
LEMMA BoardMsgBaseNext == [M!Next]_M!vars => [MP!Next]_MP!vars
  <1>1. \A s, tags, to, parent : M!Post(s, tags, to, parent) => MP!Post(s, tags, to, parent)
    BY DEF M!Post, MP!Post, M!Cardinality, MP!Cardinality, M!None, MP!None, M!Begun,
           MP!Begun, M!left_over, MP!left_over, M!IsFiniteSet, MP!IsFiniteSet,
           M!NothingSeen, MP!NothingSeen, M!Key, MP!Key, M!Public, MP!Public
  <1>2. \A s : M!Number(s) => MP!Number(s)
    BY DEF M!Number, MP!Number, M!At, MP!At, M!Max, MP!Max, M!Num, MP!Num, M!LeftFor,
           MP!LeftFor, M!Acquire, MP!Acquire, M!Last, MP!Last
  <1>3. \A s : M!Store(s) => MP!Store(s)
    BY DEF M!Store, MP!Store, M!At, MP!At, M!Top, MP!Top, M!Release, MP!Release, M!GoTo,
           MP!GoTo, M!left_over, MP!left_over, M!Last, MP!Last, M!NothingSeen,
           MP!NothingSeen, M!Key, MP!Key, M!Public, MP!Public
  <1>4. \A s : M!ReadTags(s) => MP!ReadTags(s)
    BY DEF M!ReadTags, MP!ReadTags, M!ReadIndex, MP!ReadIndex, M!Key, MP!Key, M!At, MP!At,
           M!Acquire, MP!Acquire, M!LeftFor, MP!LeftFor, M!Public, MP!Public, M!Last,
           MP!Last
  <1>5. \A s : M!WriteTags(s) => MP!WriteTags(s)
    BY DEF M!WriteTags, MP!WriteTags, M!At, MP!At, M!Key, MP!Key, M!Retagged, MP!Retagged,
           M!Top, MP!Top, M!Tagged, MP!Tagged, M!Release, MP!Release, M!GoTo, MP!GoTo,
           M!left_over, MP!left_over, M!Last, MP!Last, M!Public, MP!Public, M!NothingSeen,
           MP!NothingSeen
  <1>6. \A s : M!SaveParent(s) => MP!SaveParent(s)
    BY DEF M!SaveParent, MP!SaveParent, M!At, MP!At, M!Top, MP!Top, M!None, MP!None,
           M!Front, MP!Front, M!AfterParent, MP!AfterParent, M!Begun, MP!Begun,
           M!left_over, MP!left_over, M!Last, MP!Last, M!Public, MP!Public, M!NothingSeen,
           MP!NothingSeen, M!Key, MP!Key
  <1>7. \A s : M!NoParent(s) => MP!NoParent(s)
    BY DEF M!NoParent, MP!NoParent, M!At, MP!At, M!Top, MP!Top, M!None, MP!None, M!GoTo,
           MP!GoTo, M!AfterParent, MP!AfterParent, M!left_over, MP!left_over, M!Last,
           MP!Last, M!NothingSeen, MP!NothingSeen, M!Public, MP!Public, M!Key, MP!Key
  <1>8. \A s : M!ReadPriv(s) => MP!ReadPriv(s)
    BY DEF M!ReadPriv, MP!ReadPriv, M!ReadIndex, MP!ReadIndex, M!Top, MP!Top, M!At, MP!At,
           M!Acquire, MP!Acquire, M!LeftFor, MP!LeftFor, M!Last, MP!Last
  <1>9. \A s : M!WritePriv(s) => MP!WritePriv(s)
    BY DEF M!WritePriv, MP!WritePriv, M!At, MP!At, M!Top, MP!Top, M!Release, MP!Release,
           M!GoTo, MP!GoTo, M!left_over, MP!left_over, M!Last, MP!Last, M!NothingSeen,
           MP!NothingSeen, M!Key, MP!Key, M!Public, MP!Public
  <1>10. \A s : M!SaveForNetwork(s) => MP!SaveForNetwork(s)
    BY DEF M!SaveForNetwork, MP!SaveForNetwork, M!At, MP!At, M!Top, MP!Top, M!Acquire,
           MP!Acquire, M!Front, MP!Front, M!Begun, MP!Begun, M!left_over, MP!left_over,
           M!Last, MP!Last, M!NothingSeen, MP!NothingSeen, M!Key, MP!Key, M!Public,
           MP!Public
  <1>11. \A s : M!StoredForNetwork(s) => MP!StoredForNetwork(s)
    BY DEF M!StoredForNetwork, MP!StoredForNetwork, M!At, MP!At, M!Top, MP!Top, M!Release,
           MP!Release, M!Returned, MP!Returned, M!left_over, MP!left_over, M!Last, MP!Last,
           M!Front, MP!Front
  <1>12. \A s : M!Return(s) => MP!Return(s)
    BY DEF M!Return, MP!Return, M!At, MP!At, M!Top, MP!Top, M!Returned, MP!Returned,
           M!left_over, MP!left_over, M!Last, MP!Last, M!Front, MP!Front
  <1>13. \A s : M!Disconnect(s) => MP!Disconnect(s)
    BY DEF M!Disconnect, MP!Disconnect, M!None, MP!None, M!Lock, MP!Lock, M!Requests,
           MP!Requests, M!Top, MP!Top, M!Retagged, MP!Retagged, M!At, MP!At, M!Key, MP!Key,
           M!Tagged, MP!Tagged, M!Last, MP!Last, M!Public, MP!Public
  <1>14. \A r : M!Execute(r) => MP!Execute(r)
    BY DEF M!Execute, MP!Execute, M!Key, MP!Key, M!Public, MP!Public
  <1> QED
    BY <1>1, <1>2, <1>3, <1>4, <1>5, <1>6, <1>7, <1>8, <1>9, <1>10, <1>11,
       <1>12, <1>13, <1>14
    DEF M!Next, MP!Next, M!vars, MP!vars, M!Num, MP!Num, M!None, MP!None, M!SaveStep,
        MP!SaveStep, M!Finished, MP!Finished, M!Cardinality, MP!Cardinality, M!At, MP!At,
        M!IsFiniteSet, MP!IsFiniteSet, M!Last, MP!Last

\* The sessions' locks are shared on the board.
LEMMA BoardMsgBaseBounds == MP!MsgBaseAssumption
  BY MsgBaseBounds DEF M!MsgBaseAssumption, MP!MsgBaseAssumption, M!Public, MP!Public

LEMMA MsgBaseOnBoardInit == Init => MsgBaseOnBoard
  <1> SUFFICES ASSUME Init, part = "msgbase" PROVE MP!MsgBaseInv
    BY DEF MsgBaseOnBoard
  <1>1. M!Init
    BY DEF Init
  <1> QED
    BY <1>1, BoardMsgBaseBounds, BoardMsgBaseInit, MP!MsgBaseInit

\* A step keeps the invariant, and what is recorded of the messages.
LEMMA MsgBaseOnBoardNext ==
  ASSUME MsgBaseOnBoard, [Next]_vars
  PROVE  MsgBaseOnBoard' /\ (part = "msgbase" => MP!Kept)
  <1> SUFFICES ASSUME part = "msgbase" PROVE MP!MsgBaseInv' /\ MP!Kept
    BY DEF MsgBaseOnBoard, Next, vars
  <1>1. [M!Next]_M!vars
    BY DEF Next, vars, M!vars
  <1> QED
    BY <1>1, BoardMsgBaseBounds, BoardMsgBaseNext, MP!MsgBaseNext DEF MsgBaseOnBoard

\* A number is one message's for ever: no session stores its message over another's
\* (msgbase.py:155), also when the engine executes a request of one that has gone; but
\* for a number that another took while such a request was on its way
\* (dbproxy.py:90-91, db.py:154-165).
THEOREM BoardMsgNumbersUnique == Spec => MsgNumbersUnique
  <1>1. MsgBaseOnBoard /\ [Next]_vars => MsgBaseOnBoard'
    BY MsgBaseOnBoardNext
  <1>2. MsgBaseOnBoard /\ [Next]_vars => [part = "msgbase" => M!KeepsNumbers]_vars
    BY MsgBaseOnBoardNext DEF M!KeepsNumbers, MP!Kept, MP!Same
  <1> QED
    BY <1>1, <1>2, MsgBaseOnBoardInit, PTL DEF Spec, MsgNumbersUnique

\* What a message has as children are replies to it, but for numbers that two messages
\* took; what the indexes list is stored; and when nobody is saving, the records, the
\* indexes and what is recorded for the networks agree, but for new messages whose
\* save() was cut short, and keys that a session read while a write of one that had
\* gone was on its way (msgbase.py:161-211).
THEOREM BoardMsgRecordsAgree == Spec => []MsgRecordsAgree
  <1>1. MsgBaseOnBoard /\ [Next]_vars => MsgBaseOnBoard'
    BY MsgBaseOnBoardNext
  <1>2. MsgBaseOnBoard => MsgRecordsAgree
    <2> SUFFICES ASSUME MP!MsgBaseInv
                 PROVE  M!ChildrenAreReplies /\ M!ListedExist /\ M!IndexComplete
      BY DEF MsgBaseOnBoard, MsgRecordsAgree
    <2>1. M!ChildrenAreReplies /\ M!ListedExist
      BY DEF MP!MsgBaseInv, MP!ChildrenAreReplies, M!ChildrenAreReplies, MP!ListedExist,
         M!ListedExist, MP!Key, M!Key, MP!Public, M!Public
    <2>2. M!IndexComplete
      BY MP!IndexIsComplete DEF MP!IndexComplete, M!IndexComplete, MP!Indexed, M!Indexed,
         MP!Public, M!Public
    <2> QED
      BY <2>1, <2>2
  <1> QED
    BY <1>1, <1>2, MsgBaseOnBoardInit, PTL DEF Spec
-----------------------------------------------------------------------------
(* The limit of logins.                                                       *)

\* While the part runs, its state satisfies the invariant of the module's proof.
RateOnBoard == part = "fail2ban" => CP!RateInv

\* The module is the same in the proofs as on the board: its initial states,
LEMMA BoardRateBoundedInit == F!Init => CP!F!Init
  BY DEF F!Init, CP!F!Init, F!None, CP!F!None, F!NoAttempt, CP!F!NoAttempt

\* and its steps.
LEMMA BoardRateBoundedNext == [F!Next]_F!vars => [CP!F!Next]_CP!F!vars
  BY DEF F!Next, CP!F!Next, F!vars, CP!F!vars, F!Connect, CP!F!Connect, F!Tick, CP!F!Tick,
           F!Finished, CP!F!Finished, F!Blacklisted, CP!F!Blacklisted, F!BanExpired,
           CP!F!BanExpired, F!StillBanned, CP!F!StillBanned, F!WindowClosed,
           CP!F!WindowClosed, F!Ban, CP!F!Ban, F!Extend, CP!F!Extend, F!First,
           CP!F!First, F!Answer, CP!F!Answer, F!IsBanned, CP!F!IsBanned, F!None,
           CP!F!None, F!FirstAttempt, CP!F!FirstAttempt, F!Counted, CP!F!Counted,
           F!NoAttempt, CP!F!NoAttempt, F!HasTried, CP!F!HasTried, F!Cardinality,
           CP!F!Cardinality

\* No more than MAX_ATTEMPTS + 1 connections are accepted from an address within the length
\* of any window, although its entry is made anew (fail2ban.py:78-115); line 13 there
\* documents MAX_ATTEMPTS.
THEOREM BoardRateBounded == Spec => []RateBounded
  <1>1. CP!F!Fail2BanAssumption
    BY Fail2BanBounds DEF F!Fail2BanAssumption, CP!F!Fail2BanAssumption
  <1>2. Init => RateOnBoard
    <2> SUFFICES ASSUME Init, part = "fail2ban" PROVE CP!RateInv
      BY DEF RateOnBoard
    <2>1. F!Init
      BY DEF Init
    <2> QED
      BY <1>1, <2>1, BoardRateBoundedInit, CP!RateInit
  <1>3. RateOnBoard /\ [Next]_vars => RateOnBoard'
    <2> SUFFICES ASSUME RateOnBoard, [Next]_vars, part' = "fail2ban" PROVE CP!RateInv'
      BY DEF RateOnBoard
    <2>1. part = "fail2ban" /\ [F!Next]_F!vars
      BY DEF Next, vars, F!vars
    <2> QED
      BY <1>1, <2>1, BoardRateBoundedNext, CP!RateNext DEF RateOnBoard
  <1>4. RateOnBoard => RateBounded
    BY CP!RateIsBounded DEF RateOnBoard, RateBounded,
       F!RateBounded, CP!F!RateBounded, F!Cardinality, CP!F!Cardinality
  <1> QED
    BY <1>2, <1>3, <1>4, PTL DEF Spec
-----------------------------------------------------------------------------
(* The output of a client.                                                    *)

\* While the part runs, its state satisfies the invariant of the module's proof.
ClientOnBoard == part = "client" => CP!ClientInv

\* The module is the same in the proofs as on the board: its initial states,
LEMMA BoardSentInOrderInit == B!Init => CP!B!Init
  BY DEF B!Init, CP!B!Init, B!Thread, CP!B!Thread

\* and its steps.
LEMMA BoardSentInOrderNext == [B!Next]_B!vars => [CP!B!Next]_CP!B!vars
  BY DEF B!Next, CP!B!Next, B!vars, CP!B!vars, B!Thread, CP!B!Thread, B!WriteStr,
           CP!B!WriteStr, B!FromString, CP!B!FromString, B!Send, CP!B!Send,
           B!NewBuffer, CP!B!NewBuffer, B!Push, CP!B!Push, B!Rebuffer, CP!B!Rebuffer,
           B!Extend, CP!B!Extend, B!Connected, CP!B!Connected, B!Runs, CP!B!Runs,
           B!Finds, CP!B!Finds, B!Goes, CP!B!Goes, B!Sends, CP!B!Sends

\* Nothing that is buffered for a client that has a terminal is lost or overtaken, however
\* little of it the socket takes at a time (client.py:75-104).
THEOREM BoardSentInOrder == Spec => []SentInOrder
  <1>1. CP!B!ClientAssumption
    BY ClientBounds DEF B!ClientAssumption, CP!B!ClientAssumption
  <1>2. Init => ClientOnBoard
    <2> SUFFICES ASSUME Init, part = "client" PROVE CP!ClientInv
      BY DEF ClientOnBoard
    <2>1. B!Init
      BY DEF Init
    <2> QED
      BY <1>1, <2>1, BoardSentInOrderInit, CP!ClientInit
  <1>3. ClientOnBoard /\ [Next]_vars => ClientOnBoard'
    <2> SUFFICES ASSUME ClientOnBoard, [Next]_vars, part' = "client" PROVE CP!ClientInv'
      BY DEF ClientOnBoard
    <2>1. part = "client" /\ [B!Next]_B!vars
      BY DEF Next, vars, B!vars
    <2> QED
      BY <1>1, <2>1, BoardSentInOrderNext, CP!ClientTypeNext, CP!BytesNext, CP!LoopNext
         DEF ClientOnBoard
  <1>4. ClientOnBoard => SentInOrder
    BY DEF ClientOnBoard, SentInOrder, CP!ClientInv, CP!LoopIsAt,
       B!SentInOrder, CP!B!SentInOrder, B!InOrder, CP!B!InOrder
  <1> QED
    BY <1>2, <1>3, <1>4, PTL DEF Spec
-----------------------------------------------------------------------------
(* What is typed at a door.                                                   *)

\* While the part runs, its state satisfies the invariant of the module's proof.
DoorOnBoard == part = "door" => CP!DoorInv

\* The module is the same in the proofs as on the board: its initial states,
LEMMA BoardDoorInOrderInit == D!Init => CP!D!Init
  BY DEF D!Init, CP!D!Init

\* and its steps.
LEMMA BoardDoorInOrderNext == [D!Next]_D!vars => [CP!D!Next]_CP!D!vars
  BY DEF D!Next, CP!D!Next, D!vars, CP!D!vars, D!Type, CP!D!Type, D!ResizeTerminal,
           CP!D!ResizeTerminal, D!SendGosub, CP!D!SendGosub, D!Run, CP!D!Run,
           D!ChildExits, CP!D!ChildExits, D!BlockElapses, CP!D!BlockElapses,
           D!Select, CP!D!Select, D!NoEvent, CP!D!NoEvent, D!InputEvent,
           CP!D!InputEvent, D!WriteFails, CP!D!WriteFails, D!ReceiveRefresh,
           CP!D!ReceiveRefresh, D!RefreshEvent, CP!D!RefreshEvent, D!ReceiveGosub,
           CP!D!ReceiveGosub, D!NestedReads, CP!D!NestedReads, D!NestedEnds,
           CP!D!NestedEnds, D!Ends, CP!D!Ends, D!WriteInput, CP!D!WriteInput,
           D!Resized, CP!D!Resized, D!Buffered, CP!D!Buffered, D!Rebuffered,
           CP!D!Rebuffered, D!ToSet, CP!D!ToSet, D!Last, CP!D!Last, D!Front,
           CP!D!Front

\* No key is lost, repeated or overtaken on its way to a door, however little of it the pty
\* takes at a time (bbs/door.py).
THEOREM BoardDoorInOrder == Spec => []DoorReadsInOrder
  <1>1. CP!D!DoorAssumption
    BY DoorBounds DEF D!DoorAssumption, CP!D!DoorAssumption
  <1>2. Init => DoorOnBoard
    <2> SUFFICES ASSUME Init, part = "door" PROVE CP!DoorInv
      BY DEF DoorOnBoard
    <2>1. D!Init
      BY DEF Init
    <2> QED
      BY <1>1, <2>1, BoardDoorInOrderInit, CP!DoorInit
  <1>3. DoorOnBoard /\ [Next]_vars => DoorOnBoard'
    <2> SUFFICES ASSUME DoorOnBoard, [Next]_vars, part' = "door" PROVE CP!DoorInv'
      BY DEF DoorOnBoard
    <2>1. part = "door" /\ [D!Next]_D!vars
      BY DEF Next, vars, D!vars
    <2> QED
      BY <1>1, <2>1, BoardDoorInOrderNext, CP!DoorNext DEF DoorOnBoard
  <1>4. DoorOnBoard => DoorReadsInOrder
    BY DEF DoorOnBoard, DoorReadsInOrder, CP!DoorInv,
       D!DoorReadsInOrder, CP!D!DoorReadsInOrder, D!KeysInOrder, CP!D!KeysInOrder,
           D!Written, CP!D!Written, D!Buffered, CP!D!Buffered, D!UnderWay,
           CP!D!UnderWay, D!Ascending, CP!D!Ascending, D!Before, CP!D!Before,
           D!KeysOf, CP!D!KeysOf, D!ToSet, CP!D!ToSet, D!Last, CP!D!Last, D!Front,
           CP!D!Front
  <1> QED
    BY <1>2, <1>3, <1>4, PTL DEF Spec
-----------------------------------------------------------------------------
(* The voting booth.                                                          *)

\* While the part runs, its state satisfies the invariant of the module's proof.
PollsOnBoard == part = "polls" => SP!PollsInv

\* The module is the same in the proofs as on the board: its initial states,
LEMMA BoardTallyIsVotesInit == V!Init => SP!V!Init
  BY DEF V!Init, SP!V!Init, V!NoTable, SP!V!NoTable, V!NoChoice, SP!V!NoChoice

\* and its steps.
LEMMA BoardTallyIsVotesNext == [V!Next]_V!vars => [SP!V!Next]_SP!V!vars
  BY DEF V!Next, SP!V!Next, V!vars, SP!V!vars, V!BeginVote, SP!V!BeginVote, V!Choose,
           SP!V!Choose, V!WriteResults, SP!V!WriteResults, V!WriteVote, SP!V!WriteVote,
           V!BeginAdd, SP!V!BeginAdd, V!Add, SP!V!Add, V!BeginDelete, SP!V!BeginDelete,
           V!DeleteQuestion, SP!V!DeleteQuestion, V!DeleteAnswer, SP!V!DeleteAnswer,
           V!Abort, SP!V!Abort, V!Finished, SP!V!Finished, V!Begin, SP!V!Begin, V!Counted,
           SP!V!Counted, V!Answer, SP!V!Answer, V!With, SP!V!With, V!EarlierCounted,
           SP!V!EarlierCounted, V!Noted, SP!V!Noted, V!End, SP!V!End, V!RemoveAt,
           SP!V!RemoveAt, V!MovedUp, SP!V!MovedUp, V!WithoutAnswer, SP!V!WithoutAnswer,
           V!NoTable, SP!V!NoTable, V!NoChoice, SP!V!NoChoice, V!Question, SP!V!Question

\* The results of each question are the tally of the records of the users, whatever was
\* voted again and added before, if users take turns and finish, as long as none of its
\* answers was deleted (vote.py).
THEOREM BoardTallyIsVotes == Spec => []TallyIsVotes
  <1>1. SP!V!PollsAssumption
    BY PollsBounds DEF V!PollsAssumption, SP!V!PollsAssumption, V!IsFiniteSet, SP!V!IsFiniteSet
  <1>2. Init => PollsOnBoard
    <2> SUFFICES ASSUME Init, part = "polls" PROVE SP!PollsInv
      BY DEF PollsOnBoard
    <2>1. V!Init
      BY DEF Init
    <2> QED
      BY <1>1, <2>1, BoardTallyIsVotesInit, SP!PollsInit
  <1>3. PollsOnBoard /\ [Next]_vars => PollsOnBoard'
    <2> SUFFICES ASSUME PollsOnBoard, [Next]_vars, part' = "polls" PROVE SP!PollsInv'
      BY DEF PollsOnBoard
    <2>1. part = "polls" /\ [V!Next]_V!vars
      BY DEF Next, vars, V!vars
    <2> QED
      BY <1>1, <2>1, BoardTallyIsVotesNext, SP!PollsNext DEF PollsOnBoard
  <1>4. PollsOnBoard => TallyIsVotes
    BY SP!PollsTally DEF PollsOnBoard, TallyIsVotes, 
       V!TallyIsVotes, SP!V!TallyIsVotes, V!MovedUp, SP!V!MovedUp, V!RemoveAt,
           SP!V!RemoveAt, V!Cardinality, SP!V!Cardinality, V!IsFiniteSet,
           SP!V!IsFiniteSet
  <1> QED
    BY <1>2, <1>3, <1>4, PTL DEF Spec
-----------------------------------------------------------------------------
(* The file browser.                                                          *)

\* While the part runs, its state satisfies the invariant of the module's proof.
FilesOnBoard == part = "files" => SP!FilesInv

\* The module is the same in the proofs as on the board: its initial states,
LEMMA BoardFlagsAgreeInit == Q!Init => SP!Q!Init
  BY DEF Q!Init, SP!Q!Init, Q!NoQueue, SP!Q!NoQueue

\* and its steps.
LEMMA BoardFlagsAgreeNext == [Q!Next]_Q!vars => [SP!Q!Next]_SP!Q!vars
  BY DEF Q!Next, SP!Q!Next, Q!vars, SP!Q!vars, Q!Main, SP!Q!Main, Q!Flag, SP!Q!Flag,
           Q!UnflagAll, SP!Q!UnflagAll, Q!Move, SP!Q!Move, Q!Download, SP!Q!Download,
           Q!SendFile, SP!Q!SendFile, Q!Downloaded, SP!Q!Downloaded, Q!Upload, SP!Q!Upload,
           Q!Enter, SP!Q!Enter, Q!Back, SP!Q!Back, Q!Quit, SP!Q!Quit, Q!Connect,
           SP!Q!Connect, Q!ListFlagged, SP!Q!ListFlagged, Q!Open, SP!Q!Open, Q!Put,
           SP!Q!Put, Q!Delete, SP!Q!Delete, Q!Saved, SP!Q!Saved, Q!Reloaded, SP!Q!Reloaded,
           Q!Browsing, SP!Q!Browsing, Q!Last, SP!Q!Last, Q!Reload, SP!Q!Reload, Q!DrawRows,
           SP!Q!DrawRows, Q!Below, SP!Q!Below, Q!Cardinality, SP!Q!Cardinality, Q!In,
           SP!Q!In, Q!DrawAll, SP!Q!DrawAll, Q!Row, SP!Q!Row, Q!list, SP!Q!list, Q!Sent,
           SP!Q!Sent, Q!NoQueue, SP!Q!NoQueue, Q!Front, SP!Q!Front, Q!Unflagged,
           SP!Q!Unflagged, Q!File, SP!Q!File, Q!Listing, SP!Q!Listing, Q!IsFiniteSet,
           SP!Q!IsFiniteSet, Q!Rows, SP!Q!Rows

\* While the file browser waits for a key, the marks of the list its keys act upon are those
\* of its set; so are those on the screen, though a flag draws only two of its rows,
\* unless others changed the files since it was drawn; and the set is the user's record,
\* unless the sftp server has written that since (fbrowse.py:430-480, sftp.py:225).
THEOREM BoardFlagsAgree == Spec => []FlagsAgree
  <1>1. SP!Q!FilesAssumption
    BY FilesBounds DEF Q!FilesAssumption, SP!Q!FilesAssumption, Q!IsFiniteSet, SP!Q!IsFiniteSet
  <1>2. Init => FilesOnBoard
    <2> SUFFICES ASSUME Init, part = "files" PROVE SP!FilesInv
      BY DEF FilesOnBoard
    <2>1. Q!Init
      BY DEF Init
    <2> QED
      BY <1>1, <2>1, BoardFlagsAgreeInit, SP!FilesInit
  <1>3. FilesOnBoard /\ [Next]_vars => FilesOnBoard'
    <2> SUFFICES ASSUME FilesOnBoard, [Next]_vars, part' = "files" PROVE SP!FilesInv'
      BY DEF FilesOnBoard
    <2>1. part = "files" /\ [Q!Next]_Q!vars
      BY DEF Next, vars, Q!vars
    <2> QED
      BY <1>1, <2>1, BoardFlagsAgreeNext, SP!FilesNext DEF FilesOnBoard
  <1>4. FilesOnBoard => FlagsAgree
    BY DEF FilesOnBoard, FlagsAgree, SP!FilesInv, 
       Q!FlagsAgree, SP!Q!FlagsAgree, Q!Browsing, SP!Q!Browsing, Q!Last, SP!Q!Last, Q!Front,
           SP!Q!Front
  <1> QED
    BY <1>2, <1>3, <1>4, PTL DEF Spec
-----------------------------------------------------------------------------
(* Lists, pagers and line editors.                                            *)

\* While the part runs, its state satisfies the invariant of the module's proof.
LightbarOnBoard == part = "lightbar" => CP!LightbarInv
PagerOnBoard == part = "pager" => CP!PagerInv
LineEditOnBoard == part = "lineedit" => CP!LineEditInv

\* The module is the same in the proofs as on the board: its initial states,
LEMMA BoardLightbarInit == L!Init => CP!L!Init
  BY DEF L!Init, CP!L!Init, L!Row, CP!L!Row, L!Item, CP!L!Item, L!None, CP!L!None

\* and its steps.
LEMMA BoardLightbarNext == [L!Next]_L!vars => [CP!L!Next]_CP!L!vars
  <1>1. L!ProcessKeystroke => CP!L!ProcessKeystroke
    BY DEF L!ProcessKeystroke, CP!L!ProcessKeystroke, L!MoveDown, CP!L!MoveDown, L!MoveUp,
           CP!L!MoveUp, L!MoveHome, CP!L!MoveHome, L!MoveEnd, CP!L!MoveEnd, L!PageDown,
           CP!L!PageDown, L!PageUp, CP!L!PageUp, L!PageUpShort, CP!L!PageUpShort,
           L!AtBottom, CP!L!AtBottom, L!VisibleBottom, CP!L!VisibleBottom, L!MoveTo,
           CP!L!MoveTo, L!vars, CP!L!vars, L!AtTop, CP!L!AtTop, L!Index, CP!L!Index,
           L!RefreshQuick, CP!L!RefreshQuick, L!Refreshed, CP!L!Refreshed, L!RefreshRows,
           CP!L!RefreshRows, L!Row, CP!L!Row, L!Item, CP!L!Item, L!None, CP!L!None
  <1> DEFINE max == \A S : L!Max(S) = CP!L!Max(S)
             min == \A S : L!Min(S) = CP!L!Min(S)
  <1>2. max /\ min
    BY DEF L!Max, CP!L!Max, L!Min, CP!L!Min
  <1>3. \A i, sh, n : L!ChkBounds(i, sh, n) = CP!L!ChkBounds(i, sh, n)
    BY <1>2 DEF L!ChkBounds, CP!L!ChkBounds
  <1>4. \A row, sh, n : L!Item(row, sh, n) = CP!L!Item(row, sh, n)
    BY DEF L!Item, CP!L!Item, L!None, CP!L!None
  <1>5. L!Row = CP!L!Row /\ L!None = CP!L!None /\ L!Old = CP!L!Old
    BY DEF L!Row, CP!L!Row, L!None, CP!L!None, L!Old, CP!L!Old
  <1>6. \A i, sh, n : L!Refreshed(i, sh, n) <=> CP!L!Refreshed(i, sh, n)
    BY <1>4, <1>5 DEF L!Refreshed, CP!L!Refreshed
  <1>7. \A n, new, pos, rows :
          L!UpdateRows(n, new, pos, rows) <=> CP!L!UpdateRows(n, new, pos, rows)
    BY <1>4, <1>5 DEF L!UpdateRows, CP!L!UpdateRows
  <1>8. \A i, sh : L!MoveTo(i, sh) <=> CP!L!MoveTo(i, sh)
    BY <1>4, <1>5, <1>6 DEF L!MoveTo, CP!L!MoveTo, L!RefreshQuick, CP!L!RefreshQuick,
       L!RefreshRows, CP!L!RefreshRows
  <1>9. \A i : L!Goto(i) <=> CP!L!Goto(i)
    BY <1>2, <1>8 DEF L!Goto, CP!L!Goto
  <1>10. \A n : L!Update(n) <=> CP!L!Update(n)
    BY <1>3, <1>6 DEF L!Update, CP!L!Update
  <1>11. \A n, new : L!UpdateRow(n, new) <=> CP!L!UpdateRow(n, new)
    BY <1>3, <1>7, <1>10 DEF L!UpdateRow, CP!L!UpdateRow
  <1>12. \A new : L!UpdateKilled(new) <=> CP!L!UpdateKilled(new)
    BY <1>3, <1>7 DEF L!UpdateKilled, CP!L!UpdateKilled
  <1>13. \A n : L!NewItems(n) = CP!L!NewItems(n)
    BY <1>4, <1>5 DEF L!NewItems, CP!L!NewItems
  <1>14. L!MaxSize = CP!L!MaxSize
    BY <1>2 DEF L!MaxSize, CP!L!MaxSize
  <1>15. L!vars = CP!L!vars /\ (UNCHANGED L!vars <=> UNCHANGED CP!L!vars)
    BY DEF L!vars, CP!L!vars
  <1> HIDE DEF max, min
  <1>16. L!Next => CP!L!Next
    BY <1>1, <1>9, <1>10, <1>11, <1>12, <1>13, <1>14 DEF L!Next, CP!L!Next
  <1> QED
    BY <1>15, <1>16

\* The module is the same in the proofs as on the board: its initial states,
LEMMA BoardPagerInit == P!Init => CP!G!Init
  BY DEF P!Init, CP!G!Init, P!Row, CP!G!Row, P!None, CP!G!None

\* and its steps.
LEMMA BoardPagerNext == [P!Next]_P!vars => [CP!G!Next]_CP!G!vars
  BY DEF P!Next, CP!G!Next, P!vars, CP!G!vars, P!Refresh, CP!G!Refresh, P!MoveUp, CP!G!MoveUp,
           P!MoveDown, CP!G!MoveDown, P!MoveHome, CP!G!MoveHome, P!MoveEnd,
           CP!G!MoveEnd, P!MovePgup, CP!G!MovePgup, P!MovePgdown, CP!G!MovePgdown,
           P!Update, CP!G!Update, P!Append, CP!G!Append, P!Refreshed, CP!G!Refreshed,
           P!Scroll, CP!G!Scroll, P!Bottom, CP!G!Bottom, P!Row, CP!G!Row, P!Max,
           CP!G!Max, P!Min, CP!G!Min

\* The module is the same in the proofs as on the board: its initial states,
LEMMA BoardLineEditInit == I!Init => CP!I!Init
  BY DEF I!Init, CP!I!Init, I!Char, CP!I!Char, I!Counted, CP!I!Counted, I!ScrolledText,
           CP!I!ScrolledText, I!Strip, CP!I!Strip, I!Printed, CP!I!Printed, I!Space,
           CP!I!Space, I!Marker, CP!I!Marker, I!Column, CP!I!Column, I!SeqOf,
           CP!I!SeqOf, I!Min, CP!I!Min

\* and its steps.
LEMMA BoardLineEditNext == [I!Next]_I!vars => [CP!I!Next]_CP!I!vars
  BY DEF I!Next, CP!I!Next, I!vars, CP!I!vars, I!Refresh, CP!I!Refresh, I!Char, CP!I!Char,
           I!Type, CP!I!Type, I!Backspace, CP!I!Backspace, I!Backword, CP!I!Backword,
           I!Update, CP!I!Update, I!ScrollRefresh, CP!I!ScrollRefresh, I!LineRefresh,
           CP!I!LineRefresh, I!Space, CP!I!Space, I!Fits, CP!I!Fits, I!Echo,
           CP!I!Echo, I!Erase, CP!I!Erase, I!WithoutLastWord, CP!I!WithoutLastWord,
           I!Counted, CP!I!Counted, I!Strip, CP!I!Strip, I!Printed, CP!I!Printed,
           I!ScrolledText, CP!I!ScrolledText, I!Column, CP!I!Column, I!Marker,
           CP!I!Marker, I!Max, CP!I!Max, I!Front, CP!I!Front

\* What a widget leaves as it was on the screen is still true: the items of a list and the
\* one that is highlighted (lightbar.py:171), but for the rows that a page-up in a short
\* list and scripts that draw only some of a new list leave stale; the lines of a pager
\* (pager.py:283); the end of the content of a line editor (editor.py:440-557).
THEOREM BoardScreenIsTrue == Spec => []ScreenIsTrue
  <1>1. CP!L!LightbarAssumption
    BY LightbarBounds DEF L!LightbarAssumption, CP!L!LightbarAssumption
  <1>2. CP!G!PagerAssumption
    BY PagerBounds DEF P!PagerAssumption, CP!G!PagerAssumption
  <1>3. CP!I!LineEditAssumption
    BY LineEditBounds DEF I!LineEditAssumption, CP!I!LineEditAssumption
  <1>4a. Init => LightbarOnBoard
    <2> SUFFICES ASSUME Init, part = "lightbar" PROVE CP!LightbarInv
      BY DEF LightbarOnBoard
    <2>1. L!Init
      BY DEF Init
    <2> QED
      BY <1>1, <2>1, BoardLightbarInit, CP!LightbarInit
  <1>4b. LightbarOnBoard /\ [Next]_vars => LightbarOnBoard'
    <2> SUFFICES ASSUME LightbarOnBoard, [Next]_vars, part' = "lightbar" PROVE CP!LightbarInv'
      BY DEF LightbarOnBoard
    <2>1. part = "lightbar" /\ [L!Next]_L!vars
      BY DEF Next, vars, L!vars
    <2> QED
      BY <1>1, <2>1, BoardLightbarNext, CP!LightbarNext DEF LightbarOnBoard
  <1>5a. Init => PagerOnBoard
    <2> SUFFICES ASSUME Init, part = "pager" PROVE CP!PagerInv
      BY DEF PagerOnBoard
    <2>1. P!Init
      BY DEF Init
    <2> QED
      BY <1>2, <2>1, BoardPagerInit, CP!PagerInit
  <1>5b. PagerOnBoard /\ [Next]_vars => PagerOnBoard'
    <2> SUFFICES ASSUME PagerOnBoard, [Next]_vars, part' = "pager" PROVE CP!PagerInv'
      BY DEF PagerOnBoard
    <2>1. part = "pager" /\ [P!Next]_P!vars
      BY DEF Next, vars, P!vars
    <2> QED
      BY <1>2, <2>1, BoardPagerNext, CP!PagerNext DEF PagerOnBoard
  <1>6a. Init => LineEditOnBoard
    <2> SUFFICES ASSUME Init, part = "lineedit" PROVE CP!LineEditInv
      BY DEF LineEditOnBoard
    <2>1. I!Init
      BY DEF Init
    <2> QED
      BY <1>3, <2>1, BoardLineEditInit, CP!LineEditInit
  <1>6b. LineEditOnBoard /\ [Next]_vars => LineEditOnBoard'
    <2> SUFFICES ASSUME LineEditOnBoard, [Next]_vars, part' = "lineedit" PROVE CP!LineEditInv'
      BY DEF LineEditOnBoard
    <2>1. part = "lineedit" /\ [I!Next]_I!vars
      BY DEF Next, vars, I!vars
    <2> QED
      BY <1>3, <2>1, BoardLineEditNext, CP!LineEditNext DEF LineEditOnBoard
  <1>7. LightbarOnBoard => (part = "lightbar" => L!SelectionShown)
    BY DEF LightbarOnBoard, CP!LightbarInv,
       L!SelectionShown, CP!L!SelectionShown, L!Index, CP!L!Index, L!Row, CP!L!Row, L!Item,
           CP!L!Item, L!None, CP!L!None
  <1>8. PagerOnBoard => (part = "pager" => P!TextShown)
    BY DEF PagerOnBoard, CP!PagerInv, P!TextShown, CP!G!TextShown, P!Row, CP!G!Row
  <1>9. LineEditOnBoard => (part = "lineedit" => I!ScreenShowsContent)
    <2>1. CP!LineEditInv => CP!I!ScreenShowsContent
      BY CP!LineEditShows
    <2> QED
      BY <2>1 DEF LineEditOnBoard,
         I!ScreenShowsContent, CP!I!ScreenShowsContent, I!Hidden, CP!I!Hidden, I!Column,
           CP!I!Column, I!Space, CP!I!Space, I!Strip, CP!I!Strip, I!Marker,
           CP!I!Marker
  <1>10. LightbarOnBoard /\ PagerOnBoard /\ LineEditOnBoard => ScreenIsTrue
    BY <1>7, <1>8, <1>9 DEF ScreenIsTrue
  <1> QED
    BY <1>4a, <1>4b, <1>5a, <1>5b, <1>6a, <1>6b, <1>10, PTL DEF Spec
-----------------------------------------------------------------------------
(* Accounts.                                                                  *)

\* While the part runs, its state satisfies the invariant of the module's proof.
AccountsOnBoard == part = "accounts" => MP!AccountsInv

\* The module is the same in the proofs as on the board: its initial states,
LEMMA BoardAccountsInit == U!Init => MP!U!Init
  BY DEF U!Init, MP!U!Init, U!Idle, MP!U!Idle, U!NoCopy, MP!U!NoCopy, U!Nobody, MP!U!Nobody

\* and its steps.
LEMMA BoardAccountsNext == [U!Next]_U!vars => [MP!U!Next]_MP!U!vars
  BY DEF U!Next, MP!U!Next, U!vars, MP!U!vars, U!Connect, MP!U!Connect, U!LoginFails,
           MP!U!LoginFails, U!Anonymous, MP!U!Anonymous, U!LogIn, MP!U!LogIn, U!Top,
           MP!U!Top, U!Apply, MP!U!Apply, U!EnterHandle, MP!U!EnterHandle,
           U!EnterField, MP!U!EnterField, U!EnterAgainFails, MP!U!EnterAgainFails,
           U!CancelNua, MP!U!CancelNua, U!Confirm, MP!U!Confirm, U!ForgetPassword,
           MP!U!ForgetPassword, U!EmailFails, MP!U!EmailFails, U!EmailMatches,
           MP!U!EmailMatches, U!CancelReset, MP!U!CancelReset, U!PasskeyFails,
           MP!U!PasskeyFails, U!Reset, MP!U!Reset, U!Profile, MP!U!Profile,
           U!OtherUser, MP!U!OtherUser, U!Edit, MP!U!Edit, U!EditGroups,
           MP!U!EditGroups, U!DeleteTarget, MP!U!DeleteTarget, U!Quit, MP!U!Quit,
           U!SaveUser, MP!U!SaveUser, U!SaveGroups, MP!U!SaveGroups, U!DeleteGroups,
           MP!U!DeleteGroups, U!DeleteUser, MP!U!DeleteUser, U!Disconnect,
           MP!U!Disconnect, U!In, MP!U!In, U!Go, MP!U!Go, U!NoCopy, MP!U!NoCopy,
           U!Round, MP!U!Round, U!NextRound, MP!U!NextRound, U!Anon, MP!U!Anon,
           U!Read, MP!U!Read, U!Record, MP!U!Record, U!SaveThen, MP!U!SaveThen,
           U!Field, MP!U!Field, U!Returned, MP!U!Returned, U!ResetGoesOn,
           MP!U!ResetGoesOn, U!IsSysop, MP!U!IsSysop, U!CopyOf, MP!U!CopyOf,
           U!Target, MP!U!Target, U!Do, MP!U!Do, U!Others, MP!U!Others,
           U!TaintIfStale, MP!U!TaintIfStale, U!Applied, MP!U!Applied, U!Idle,
           MP!U!Idle, U!Nobody, MP!U!Nobody, U!Rounds, MP!U!Rounds

\* Outside saves and deletions, `groupbase' has a user in just the groups that `userbase'
\* gives him, and nobody who was deleted; but for users saved from a copy that was
\* overtaken, or half (userbase.py:246-335).
THEOREM BoardAccGroupsAgree == Spec => []AccGroupsAgree
  <1>2a. Init => AccountsOnBoard
    <2> SUFFICES ASSUME Init, part = "accounts" PROVE MP!AccountsInv
      BY DEF AccountsOnBoard
    <2>1. U!Init
      BY DEF Init
    <2> QED
      BY <2>1, BoardAccountsInit, MP!AccountsInit
  <1>2b. AccountsOnBoard /\ [Next]_vars => AccountsOnBoard'
    <2> SUFFICES ASSUME AccountsOnBoard, [Next]_vars, part' = "accounts" PROVE MP!AccountsInv'
      BY DEF AccountsOnBoard
    <2>1. part = "accounts" /\ [U!Next]_U!vars
      BY DEF Next, vars, U!vars
    <2> QED
      BY <2>1, BoardAccountsNext, MP!AccountsNext DEF AccountsOnBoard
  <1>3. AccountsOnBoard => AccGroupsAgree
    BY MP!AccountsAgree DEF AccountsOnBoard, AccGroupsAgree,
       U!GroupsAgree, MP!U!GroupsAgree, U!Idle, MP!U!Idle
  <1> QED
    BY <1>2a, <1>2b, <1>3, PTL DEF Spec
-----------------------------------------------------------------------------
(* The message area.                                                          *)

\* While the part runs, its state satisfies the invariant of the module's proof.
MsgAreaOnBoard == part = "msgarea" => SP!MarkedInv

\* The module is the same in the proofs as on the board: its initial states,
LEMMA BoardMsgAreaInit == A!Init => SP!M!Init
  BY DEF A!Init, SP!M!Init, A!NoLists, SP!M!NoLists, A!NoDraft, SP!M!NoDraft, A!None,
           SP!M!None

\* and its steps.
LEMMA BoardMsgAreaNext == [A!Next]_A!vars => [SP!M!Next]_SP!M!vars
  <1>1. \A s \in Reader : A!Enter(s) => SP!M!Enter(s)
    BY DEF A!Enter, SP!M!Enter, A!Goes, SP!M!Goes, A!past, SP!M!past
  <1>2. \A s \in Reader : A!ReadPrivate(s) => SP!M!ReadPrivate(s)
    BY DEF A!ReadPrivate, SP!M!ReadPrivate, A!Range, SP!M!Range, A!Goes, SP!M!Goes, A!kept,
               SP!M!kept, A!past, SP!M!past
  <1>3. \A s \in Reader : A!DrawMenu(s) => SP!M!DrawMenu(s)
    BY DEF A!DrawMenu, SP!M!DrawMenu, A!Subscribed, SP!M!Subscribed, A!Goes, SP!M!Goes,
               A!kept, SP!M!kept
  <1>4. \A s \in Reader : A!LeaveMenu(s) => SP!M!LeaveMenu(s)
    BY DEF A!LeaveMenu, SP!M!LeaveMenu, A!Ends, SP!M!Ends, A!kept, SP!M!kept, A!past,
               SP!M!past, A!Goes, SP!M!Goes, A!NoLists, SP!M!NoLists
  <1>5. \A s \in Reader : A!ReadMessages(s) => SP!M!ReadMessages(s)
    BY DEF A!ReadMessages, SP!M!ReadMessages, A!Range, SP!M!Range, A!SetToSortSeq,
               SP!M!SetToSortSeq, A!Goes, SP!M!Goes, A!kept, SP!M!kept, A!past, SP!M!past,
               A!SetToSeq, SP!M!SetToSeq, A!IsInjective, SP!M!IsInjective, A!Cardinality,
               SP!M!Cardinality, A!IsFiniteSet, SP!M!IsFiniteSet
  <1>6. \A s \in Reader : A!MarkAll(s) => SP!M!MarkAll(s)
    BY DEF A!MarkAll, SP!M!MarkAll, A!Ends, SP!M!Ends, A!kept, SP!M!kept, A!past,
               SP!M!past, A!Goes, SP!M!Goes, A!NoLists, SP!M!NoLists
  <1>7. \A s \in Reader : A!Write(s) => SP!M!Write(s)
    BY DEF A!Write, SP!M!Write, A!None, SP!M!None, A!Ends, SP!M!Ends, A!kept, SP!M!kept,
               A!past, SP!M!past, A!Goes, SP!M!Goes, A!NoLists, SP!M!NoLists
  <1>8. \A s \in Reader : A!ChangeArea(s) => SP!M!ChangeArea(s)
    BY DEF A!ChangeArea, SP!M!ChangeArea, A!Ends, SP!M!Ends, A!past, SP!M!past, A!Goes,
               SP!M!Goes, A!NoLists, SP!M!NoLists
  <1>9. \A s \in Reader : A!Display(s) => SP!M!Display(s)
    BY DEF A!Display, SP!M!Display, A!Found, SP!M!Found, A!MarkRead, SP!M!MarkRead,
               A!Current, SP!M!Current, A!Goes, SP!M!Goes, A!local, SP!M!local, A!KeyError,
               SP!M!KeyError, A!kept, SP!M!kept, A!Ends, SP!M!Ends, A!NoLists, SP!M!NoLists
  <1>10. \A s \in Reader : A!Prompt(s) => SP!M!Prompt(s)
    BY DEF A!Prompt, SP!M!Prompt, A!Found, SP!M!Found, A!Goes, SP!M!Goes, A!local,
               SP!M!local, A!KeyError, SP!M!KeyError, A!kept, SP!M!kept, A!past, SP!M!past,
               A!Current, SP!M!Current, A!Ends, SP!M!Ends, A!NoLists, SP!M!NoLists
  <1>11. \A s \in Reader : A!GoToMessage(s) => SP!M!GoToMessage(s)
    BY DEF A!GoToMessage, SP!M!GoToMessage, A!Goes, SP!M!Goes, A!kept, SP!M!kept, A!past,
               SP!M!past
  <1>12. \A s \in Reader : A!LeaveReader(s) => SP!M!LeaveReader(s)
    BY DEF A!LeaveReader, SP!M!LeaveReader, A!Ends, SP!M!Ends, A!kept, SP!M!kept, A!past,
               SP!M!past, A!Goes, SP!M!Goes, A!NoLists, SP!M!NoLists
  <1>13. \A s \in Reader : A!EditTags(s) => SP!M!EditTags(s)
    BY DEF A!EditTags, SP!M!EditTags, A!AllowTag, SP!M!AllowTag, A!Found, SP!M!Found,
               A!Current, SP!M!Current, A!Goes, SP!M!Goes, A!local, SP!M!local, A!KeyError,
               SP!M!KeyError, A!kept, SP!M!kept, A!past, SP!M!past, A!Ends, SP!M!Ends,
               A!NoLists, SP!M!NoLists
  <1>14. \A s \in Reader : A!SaveTags(s) => SP!M!SaveTags(s)
    BY DEF A!SaveTags, SP!M!SaveTags, A!Save, SP!M!Save, A!NoDraft, SP!M!NoDraft, A!Goes,
               SP!M!Goes, A!kept, SP!M!kept, A!past, SP!M!past, A!Public, SP!M!Public,
               A!None, SP!M!None
  <1>15. \A s \in Reader : A!Delete(s) => SP!M!Delete(s)
    BY DEF A!Delete, SP!M!Delete, A!Found, SP!M!Found, A!Restrict, SP!M!Restrict,
               A!Current, SP!M!Current, A!Ends, SP!M!Ends, A!KeyError, SP!M!KeyError,
               A!kept, SP!M!kept, A!Goes, SP!M!Goes, A!NoLists, SP!M!NoLists
  <1>16. \A s \in Reader : A!Reply(s) => SP!M!Reply(s)
    BY DEF A!Reply, SP!M!Reply, A!Found, SP!M!Found, A!Current, SP!M!Current, A!None,
               SP!M!None, A!Ends, SP!M!Ends, A!KeyError, SP!M!KeyError, A!kept, SP!M!kept,
               A!past, SP!M!past, A!Goes, SP!M!Goes, A!NoLists, SP!M!NoLists
  <1>17. \A s \in Reader : A!Send(s) => SP!M!Send(s)
    BY DEF A!Send, SP!M!Send, A!NextNum, SP!M!NextNum, A!None, SP!M!None, A!Save,
               SP!M!Save, A!MarkRead, SP!M!MarkRead, A!NoDraft, SP!M!NoDraft, A!Goes,
               SP!M!Goes, A!kept, SP!M!kept, A!Max, SP!M!Max, A!Public, SP!M!Public
  <1>18. \A s \in Reader : A!Cancel(s) => SP!M!Cancel(s)
    BY DEF A!Cancel, SP!M!Cancel, A!NoDraft, SP!M!NoDraft, A!Goes, SP!M!Goes, A!kept,
               SP!M!kept, A!past, SP!M!past, A!None, SP!M!None
  <1> QED
    BY <1>1, <1>2, <1>3, <1>4, <1>5, <1>6, <1>7, <1>8, <1>9, <1>10, <1>11, <1>12, <1>13,
       <1>14, <1>15, <1>16, <1>17, <1>18
    DEF A!Next, SP!M!Next, A!vars, SP!M!vars, A!Finished, SP!M!Finished

\* What is marked as read was displayed, sent by the reader, or counted as new by the menu
\* that the reader saw, whatever arrives meanwhile (msgarea.py:735), as long as no message
\* of its number was deleted.
THEOREM BoardMarkedWereOffered == Spec => []MarkedWereOffered
  <1>2a. Init => MsgAreaOnBoard
    <2> SUFFICES ASSUME Init, part = "msgarea" PROVE SP!MarkedInv
      BY DEF MsgAreaOnBoard
    <2>1. A!Init
      BY DEF Init
    <2> QED
      BY <2>1, BoardMsgAreaInit, SP!MarkedInit
  <1>2b. MsgAreaOnBoard /\ [Next]_vars => MsgAreaOnBoard'
    <2> SUFFICES ASSUME MsgAreaOnBoard, [Next]_vars, part' = "msgarea" PROVE SP!MarkedInv'
      BY DEF MsgAreaOnBoard
    <2>1. part = "msgarea" /\ [A!Next]_A!vars
      BY DEF Next, vars, A!vars
    <2> QED
      BY <2>1, BoardMsgAreaNext, SP!MarkedNext DEF MsgAreaOnBoard
  <1>3. MsgAreaOnBoard => MarkedWereOffered
    BY SP!MarkedOffered DEF MsgAreaOnBoard, MarkedWereOffered,
       A!MarkedWereOffered, SP!M!MarkedWereOffered
  <1> QED
    BY <1>2a, <1>2b, <1>3, PTL DEF Spec
-----------------------------------------------------------------------------
(* Chats.                                                                     *)

\* While the part runs, its state satisfies the invariant of the module's proof.
ChatOnBoard == part = "chat" => SP!ChatInv

\* The module is the same in the proofs as on the board: its initial states,
LEMMA BoardChatInit == C!Init => SP!C!Init
  BY DEF C!Init, SP!C!Init

\* and its steps.
LEMMA BoardChatNext == [C!Next]_C!vars => [SP!C!Next]_SP!C!vars
  <1>1. \A s, chats, t : C!HangUps(s, chats, t) = SP!C!HangUps(s, chats, t)
    BY DEF C!HangUps, SP!C!HangUps, C!Chat, SP!C!Chat, C!Cardinality, SP!C!Cardinality
  <1>2. \A s \in Session : C!EnterOnline(s) => SP!C!EnterOnline(s)
    BY DEF C!EnterOnline, SP!C!EnterOnline
  <1>3. \A s \in Session : C!Ask(s) => SP!C!Ask(s)
    BY DEF C!Ask, SP!C!Ask, C!Free, SP!C!Free, C!Online, SP!C!Online, C!Plain, SP!C!Plain
  <1>4. \A s \in Session : C!Prune(s) => SP!C!Prune(s)
    BY DEF C!Prune, SP!C!Prune, C!Free, SP!C!Free
  <1>5. \A s \in Session : C!LeaveOnline(s) => SP!C!LeaveOnline(s)
    BY DEF C!LeaveOnline, SP!C!LeaveOnline, C!Free, SP!C!Free
  <1>6. \A s \in Session : C!ReceiveRequest(s) => SP!C!ReceiveRequest(s)
    BY DEF C!ReceiveRequest, SP!C!ReceiveRequest, C!Reads, SP!C!Reads, C!NextOf,
               SP!C!NextOf, C!Routed, SP!C!Routed, C!Read, SP!C!Read, C!Plain,
               SP!C!Plain, C!Online, SP!C!Online, C!Waiting, SP!C!Waiting, C!At,
               SP!C!At, C!Last, SP!C!Last
  <1>7. \A s \in Session : C!ReceiveAnswer(s) => SP!C!ReceiveAnswer(s)
    BY DEF C!ReceiveAnswer, SP!C!ReceiveAnswer, C!Reads, SP!C!Reads, C!NextOf, SP!C!NextOf,
               C!Read, SP!C!Read, C!Online, SP!C!Online, C!Waiting, SP!C!Waiting,
               C!At, SP!C!At, C!Last, SP!C!Last
  <1>8. \A s \in Session : C!ReceiveCall(s) => SP!C!ReceiveCall(s)
    BY DEF C!ReceiveCall, SP!C!ReceiveCall, C!Reads, SP!C!Reads, C!NextOf, SP!C!NextOf,
               C!Routed, SP!C!Routed, C!Read, SP!C!Read, C!Chat, SP!C!Chat,
               C!Began, SP!C!Began, C!Online, SP!C!Online, C!Waiting,
               SP!C!Waiting, C!At, SP!C!At, C!Last, SP!C!Last
  <1>9. \A s \in Session : C!ReceiveChat(s) => SP!C!ReceiveChat(s)
    BY DEF C!ReceiveChat, SP!C!ReceiveChat, C!Reads, SP!C!Reads, C!NextOf, SP!C!NextOf,
               C!Read, SP!C!Read, C!Online, SP!C!Online, C!Waiting, SP!C!Waiting,
               C!At, SP!C!At, C!Last, SP!C!Last
  <1>10. \A s \in Session : C!Acknowledged(s) => SP!C!Acknowledged(s)
    BY DEF C!Acknowledged, SP!C!Acknowledged, C!Free, SP!C!Free, C!Routed, SP!C!Routed,
               C!Plain, SP!C!Plain, C!Online, SP!C!Online
  <1>11. \A s \in Session : C!Updated(s) => SP!C!Updated(s)
    BY DEF C!Updated, SP!C!Updated, C!Free, SP!C!Free
  <1>12. \A s \in Session : C!ChatEvent(s) => SP!C!ChatEvent(s)
    BY DEF C!ChatEvent, SP!C!ChatEvent, C!Waiting, SP!C!Waiting, C!Goes, SP!C!Goes, C!At,
               SP!C!At, C!Other, SP!C!Other, C!Last, SP!C!Last
  <1>13. \A s \in Session : C!Dial(s) => SP!C!Dial(s)
    BY DEF C!Dial, SP!C!Dial, C!Free, SP!C!Free, C!Began, SP!C!Began, C!Routed, SP!C!Routed,
               C!Plain, SP!C!Plain, C!Online, SP!C!Online
  <1>14. \A s \in Session : C!Answer(s) => SP!C!Answer(s)
    BY DEF C!Answer, SP!C!Answer, C!At, SP!C!At, C!Routed, SP!C!Routed, C!Chat, SP!C!Chat,
               C!Other, SP!C!Other, C!Goes, SP!C!Goes, C!Online, SP!C!Online,
               C!Last, SP!C!Last
  <1>15. \A s \in Session : C!Hesitate(s) => SP!C!Hesitate(s)
    BY DEF C!Hesitate, SP!C!Hesitate, C!At, SP!C!At, C!Goes, SP!C!Goes, C!Last, SP!C!Last
  <1>16. \A s \in Session : C!Type(s) => SP!C!Type(s)
    BY DEF C!Type, SP!C!Type, C!At, SP!C!At, C!Routed, SP!C!Routed, C!Chat, SP!C!Chat,
               C!Other, SP!C!Other, C!Online, SP!C!Online, C!Last, SP!C!Last
  <1>17. \A s \in Session : C!Leave(s) => SP!C!Leave(s)
    BY <1>1 DEF C!Leave, SP!C!Leave, C!Waiting, SP!C!Waiting, C!HungUp, SP!C!HungUp, C!At,
           SP!C!At, C!Online, SP!C!Online, C!Chat, SP!C!Chat, C!Last, SP!C!Last,
           C!Front, SP!C!Front
  <1>18. \A s \in Session : C!Disconnect(s) => SP!C!Disconnect(s)
    BY <1>1 DEF C!Disconnect, SP!C!Disconnect, C!Online, SP!C!Online, C!HungUp, SP!C!HungUp,
           C!Chat, SP!C!Chat
  <1>19. \A s \in Session : C!Unheard(s) => SP!C!Unheard(s)
    BY DEF C!Unheard, SP!C!Unheard, C!Online, SP!C!Online
  <1> QED
    BY <1>1, <1>2, <1>3, <1>4, <1>5, <1>6, <1>7, <1>8, <1>9, <1>10, <1>11, <1>12, <1>13,
       <1>14, <1>15, <1>16, <1>17, <1>18, <1>19
    DEF C!Next, SP!C!Next, C!vars, SP!C!vars, C!Finished, SP!C!Finished

\* However calls, answers, ends and disconnections meet, nobody goes on chatting with a
\* session that does not, as long as no call is mixed up with another and the engine kills
\* neither of the two (chat.py).
THEOREM BoardCallsHaveTwoEnds == Spec => []CallsHaveTwoEnds
  <1>2a. Init => ChatOnBoard
    <2> SUFFICES ASSUME Init, part = "chat" PROVE SP!ChatInv
      BY DEF ChatOnBoard
    <2>1. C!Init
      BY DEF Init
    <2> QED
      BY <2>1, BoardChatInit, SP!ChatStarts
  <1>2b. ChatOnBoard /\ [Next]_vars => ChatOnBoard'
    <2> SUFFICES ASSUME ChatOnBoard, [Next]_vars, part' = "chat" PROVE SP!ChatInv'
      BY DEF ChatOnBoard
    <2>1. part = "chat" /\ [C!Next]_C!vars
      BY DEF Next, vars, C!vars
    <2> QED
      BY <2>1, BoardChatNext, SP!ChatStep DEF ChatOnBoard
  <1>3. ChatOnBoard => CallsHaveTwoEnds
    <2>1. SP!ChatInv => SP!C!CallsHaveTwoEnds
      BY SP!ChatTrueEnds
    <2>2. SP!C!CallsHaveTwoEnds => C!CallsHaveTwoEnds
      BY DEF C!CallsHaveTwoEnds, SP!C!CallsHaveTwoEnds, C!Plain, SP!C!Plain, C!Ends, SP!C!Ends,
           C!Online, SP!C!Online, C!ToSet, SP!C!ToSet
    <2> QED
      BY <2>1, <2>2 DEF ChatOnBoard, CallsHaveTwoEnds
  <1> QED
    BY <1>2a, <1>2b, <1>3, PTL DEF Spec
-----------------------------------------------------------------------------
(* Oneliners.                                                                 *)

\* While the part runs, its state satisfies the invariant of the module's proof.
OnelinersOnBoard == part = "oneliners" => MP!OnelinersInv

\* The module is the same in the proofs as on the board: its initial states,
LEMMA BoardOnelinersInit == O!Init => MP!O!Init
  BY DEF O!Init, MP!O!Init, O!NoThread, MP!O!NoThread, O!Nothing, MP!O!Nothing

\* and its steps.
LEMMA BoardOnelinersNext == [O!Next]_O!vars => [MP!O!Next]_MP!O!vars
  <1>1. \A times, n : O!Latest(times, n) = MP!O!Latest(times, n)
    BY DEF O!Latest, MP!O!Latest, O!Cardinality, MP!O!Cardinality
  <1>2. \A s \in Session : O!CheckCeiling(s) => MP!O!CheckCeiling(s)
    BY DEF O!CheckCeiling, MP!O!CheckCeiling, O!Goes, MP!O!Goes, O!Trimmed, MP!O!Trimmed,
               O!OthersAdd, MP!O!OthersAdd, O!Adding, MP!O!Adding, O!Cardinality,
               MP!O!Cardinality
  <1>3. \A s \in Session : O!SortRecords(s) => MP!O!SortRecords(s)
    BY DEF O!SortRecords, MP!O!SortRecords, O!Older, MP!O!Older, O!Goes, MP!O!Goes,
               O!Cardinality, MP!O!Cardinality, O!Max, MP!O!Max, O!Restrict,
               MP!O!Restrict
  <1> QED
    BY <1>1, <1>2, <1>3
    DEF O!Next, MP!O!Next, O!vars, MP!O!vars, O!Elsewhere, MP!O!Elsewhere, O!Enter,
           MP!O!Enter, O!Fetch, MP!O!Fetch, O!ThreadEnds, MP!O!ThreadEnds, O!Draw,
           MP!O!Draw, O!Redraw, MP!O!Redraw, O!Say, MP!O!Say, O!Post, MP!O!Post,
           O!NextKey, MP!O!NextKey, O!AddOneline, MP!O!AddOneline, O!CopyRecords,
           MP!O!CopyRecords, O!DeleteRecord, MP!O!DeleteRecord, O!EndTrim,
           MP!O!EndTrim, O!Leave, MP!O!Leave, O!Visits, MP!O!Visits, O!Goes,
           MP!O!Goes, O!Fetching, MP!O!Fetching, O!NoThread, MP!O!NoThread,
           O!Merge, MP!O!Merge, O!Time, MP!O!Time, O!OthersAdd, MP!O!OthersAdd,
           O!Older, MP!O!Older, O!Ended, MP!O!Ended, O!Trimmed, MP!O!Trimmed,
           O!Adding, MP!O!Adding, O!Merged, MP!O!Merged, O!Nothing, MP!O!Nothing,
           O!Max, MP!O!Max, O!Restrict, MP!O!Restrict

\* The table of oneliners keeps to its ceiling whenever no session is between adding to it
\* and the end of its trim, if they take turns and finish (default/ol.py:224-251).
THEOREM BoardHistoryBounded == Spec => []HistoryBounded
  <1>1. MP!O!OnelinersAssumption
    BY OnelinersBounds DEF O!OnelinersAssumption, MP!O!OnelinersAssumption
  <1>2a. Init => OnelinersOnBoard
    <2> SUFFICES ASSUME Init, part = "oneliners" PROVE MP!OnelinersInv
      BY DEF OnelinersOnBoard
    <2>1. O!Init
      BY DEF Init
    <2> QED
      BY <1>1, <2>1, BoardOnelinersInit, MP!OnelinersInit
  <1>2b. OnelinersOnBoard /\ [Next]_vars => OnelinersOnBoard'
    <2> SUFFICES ASSUME OnelinersOnBoard, [Next]_vars, part' = "oneliners" PROVE MP!OnelinersInv'
      BY DEF OnelinersOnBoard
    <2>1. part = "oneliners" /\ [O!Next]_O!vars
      BY DEF Next, vars, O!vars
    <2> QED
      BY <1>1, <2>1, BoardOnelinersNext, MP!OnelinersNext DEF OnelinersOnBoard
  <1>3. OnelinersOnBoard => HistoryBounded
    BY <1>1, MP!OnelinersBounded DEF OnelinersOnBoard, HistoryBounded,
       O!HistoryBounded, MP!O!HistoryBounded, O!Adding, MP!O!Adding, O!Cardinality,
           MP!O!Cardinality
  <1> QED
    BY <1>2a, <1>2b, <1>3, PTL DEF Spec
=============================================================================
