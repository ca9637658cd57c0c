------------------------------- MODULE MCBoard ------------------------------
(***************************************************************************)
(* The data that the sessions share, the scripts and widgets that work on  *)
(* it, and what is between a session and its client, model-checked in one  *)
(* run, one at a time: a behaviour is one of the part that its initial     *)
(* state chooses.  The parts do not interact here, and so they take turns  *)
(* with the same variables; those that a part does not use stay 0.         *)
(***************************************************************************)
EXTENDS Integers, Sequences, TLC

CONSTANTS
  Session,             \* of the message base, the accounts, the chats and the oneliners
  User, Tag, ServerTag, NetworkTag, Posts, MaxMsgs, MaxCuts,         \* of the message base,
  Ip, Blacklist, Whitelist, MaxAttempts, Window, BanLength, BanIncrement, MaxTime,
  MaxTries,                                                          \* of the login limit,
  MaxKeys, MaxResizes, MaxGosubs,                                    \* of doors,
  MaxWrites, MaxBuffers,                                             \* of clients,
  ListRows, ListSizes, PageRows, PageLines,                          \* of lists and pagers,
  Columns, ScrollAmt, MarginAmt, MaxLength,                          \* of line editors,
  Voter, Pollster, MaxQuestions, MaxAnswers, MaxOps,                 \* of the polls,
  Shared, Uploads, BySysop, ByAnonymous,                             \* of the files,
  Handle, Group, SysopGroup, MaxLogins, MaxPasskeys,                 \* of the accounts,
  Reader, Moderator, ReaderTag, ReaderPosts, MaxPosts, MaxReads,     \* of the message area,
  Rejecting, MaxAsks, MaxCalls, MaxTyped,                            \* of the chats
  MAX_HISTORY, Slack, MaxOneliners, MaxVisits                        \* and of the oneliners

Symmetry == Permutations(Session)

VARIABLES
  part,
  x1, x2, x3, x4, x5, x6, x7, x8, x9, x10, x11, x12, x13, x14

vars == <<part,
          x1, x2, x3, x4, x5, x6, x7, x8, x9, x10, x11, x12, x13, x14>>

-----------------------------------------------------------------------------
(* The parts.                                                              *)

M == INSTANCE MsgBase WITH
  SharedLocks <- TRUE,
  msgs <- x1, index <- x2, trans <- x3, queue <- x4, lock <- x5, saves <- x6,
  left <- x7, cuts <- x8, cut <- x9, astray <- x10, adrift <- x11

U == INSTANCE Accounts WITH
  Sysop <- SysopGroup, MaxKeys <- MaxPasskeys,
  users <- x1, members <- x2, at <- x3, db <- x4, tries <- x5, count <- x6, own <- x7,
  tgt <- x8, stale <- x9, tainted <- x10

A == INSTANCE MsgArea WITH
  Session <- Reader, Sysop <- Moderator, Tag <- ReaderTag, Posts <- ReaderPosts,
  msgs <- x1, priv <- x2, posts <- x3, readmsgs <- x4, subscription <- x5, where <- x6,
  hidden <- x7, lists <- x8, reading <- x9, at <- x10, draft <- x11, entries <- x12,
  known <- x13, deleted <- x14

V == INSTANCE Polls WITH
  User <- Voter, Sysop <- Pollster,
  table <- x1, votes <- x2, at <- x3, copy <- x4, choice <- x5, ops <- x6,
  shuffled <- x7, spoiled <- x8

F == INSTANCE Fail2Ban WITH
  now <- x1, banned <- x2, attempts <- x3, tries <- x4, accepted <- x5

L == INSTANCE Lightbar WITH
  Height <- ListRows, Sizes <- ListSizes,
  size <- x1, idx <- x2, shift <- x3, drawn <- x4, lit <- x5, stale <- x6,
  unsound <- x7

P == INSTANCE Pager WITH
  Height <- PageRows, MaxLines <- PageLines,
  size <- x1, position <- x2, drawn <- x3

I == INSTANCE LineEdit WITH
  Width <- Columns,
  scrolling <- x1, content <- x2, shift <- x3, pos <- x4, screen <- x5, cursor <- x6

E == INSTANCE Editor WITH
  Word <- {"a", "b"}, Beginning <- {"a"}, Widths <- {1, 2}, UNDOLEVELS <- 1,
  MaxRepeat <- 2, MaxWords <- 2, MaxLines <- 3,
  lines <- x1, index <- x2, width <- x3, edit <- x4, lneditor <- x5, UNDO <- x6

C == INSTANCE Chat WITH
  MaxKeys <- MaxTyped,
  where <- x1, sessions <- x2, calls <- x3, pipe <- x4, buffered <- x5, answers <- x6,
  bounds <- x7, unheard <- x8, mixed <- x9

O == INSTANCE Oneliners WITH
  MaxLines <- MaxOneliners,
  shroo_ms_enabled <- x1, udb <- x2, wall <- x3, lines <- x4, visits <- x5, at <- x6,
  thread <- x7, dirty <- x8, oneliner <- x9, read <- x10, disturbed <- x11

D == INSTANCE Door WITH
  kind <- x1, stage <- x2, child <- x3, blocked <- x4, size <- x5, winsize <- x6,
  pipe <- x7, input <- x8, refresh <- x9, typed <- x10, pty <- x11, consumed <- x12,
  resizes <- x13, gosubs <- x14

B == INSTANCE ClientIO WITH
  connecting <- x1, buffers <- x2, send_buffer <- x3, found <- x4, pc <- x5,
  ready_bytes <- x6, arg <- x7, written <- x8, before <- x9, received <- x10

Q == INSTANCE Files WITH
  Sysop <- BySysop, Anonymous <- ByAnonymous,
  disk <- x1, record <- x2, flagged <- x3, dirs <- x4, listed <- x5, drawn <- x6,
  steady <- x7, queue <- x8, remote <- x9, fresh <- x10

ASSUME MsgBaseBounds == M!MsgBaseAssumption
ASSUME AccountsBounds == U!AccountsAssumption
ASSUME MsgAreaBounds == A!MsgAreaAssumption
ASSUME PollsBounds == V!PollsAssumption
ASSUME Fail2BanBounds == F!Fail2BanAssumption
ASSUME LightbarBounds == L!LightbarAssumption
ASSUME PagerBounds == P!PagerAssumption
ASSUME LineEditBounds == I!LineEditAssumption
ASSUME EditorBounds == E!EditorAssumption
ASSUME ChatBounds == C!ChatAssumption
ASSUME OnelinersBounds == O!OnelinersAssumption
ASSUME DoorBounds == D!DoorAssumption
ASSUME ClientBounds == B!ClientAssumption
ASSUME FilesBounds == Q!FilesAssumption

\* The variables that a part of so many does not use
after11 == <<x12, x13, x14>>
after10 == <<x11, after11>>
after9  == <<x10, after10>>
after8  == <<x9, after9>>
after7  == <<x8, after8>>
after6  == <<x7, after7>>
after5  == <<x6, after6>>
after3  == <<x4, x5, after5>>

Unused11 == x12 = 0 /\ x13 = 0 /\ x14 = 0
Unused10 == x11 = 0 /\ Unused11
Unused9  == x10 = 0 /\ Unused10
Unused8  == x9 = 0 /\ Unused9
Unused7  == x8 = 0 /\ Unused8
Unused6  == x7 = 0 /\ Unused7
Unused5  == x6 = 0 /\ Unused6
Unused3  == x4 = 0 /\ x5 = 0 /\ Unused5

Init ==
  \/ part = "msgbase" /\ M!Init /\ Unused11
  \/ part = "accounts" /\ U!Init /\ Unused10
  \/ part = "msgarea" /\ A!Init
  \/ part = "polls" /\ V!Init /\ Unused8
  \/ part = "fail2ban" /\ F!Init /\ Unused5
  \/ part = "lightbar" /\ L!Init /\ Unused7
  \/ part = "pager" /\ P!Init /\ Unused3
  \/ part = "lineedit" /\ I!Init /\ Unused6
  \/ part = "editor" /\ E!Init /\ Unused6
  \/ part = "chat" /\ C!Init /\ Unused9
  \/ part = "oneliners" /\ O!Init /\ Unused11
  \/ part = "door" /\ D!Init
  \/ part = "client" /\ B!Init /\ Unused10
  \/ part = "files" /\ Q!Init /\ Unused10

Next ==
  /\ UNCHANGED part
  /\ \/ part = "msgbase" /\ M!Next /\ UNCHANGED after11
     \/ part = "accounts" /\ U!Next /\ UNCHANGED after10
     \/ part = "msgarea" /\ A!Next
     \/ part = "polls" /\ V!Next /\ UNCHANGED after8
     \/ part = "fail2ban" /\ F!Next /\ UNCHANGED after5
     \/ part = "lightbar" /\ L!Next /\ UNCHANGED after7
     \/ part = "pager" /\ P!Next /\ UNCHANGED after3
     \/ part = "lineedit" /\ I!Next /\ UNCHANGED after6
     \/ part = "editor" /\ E!Next /\ UNCHANGED after6
     \/ part = "chat" /\ C!Next /\ UNCHANGED after9
     \/ part = "oneliners" /\ O!Next /\ UNCHANGED after11
     \/ part = "door" /\ D!Next
     \/ part = "client" /\ B!Next /\ UNCHANGED after10
     \/ part = "files" /\ Q!Next /\ UNCHANGED after10

Spec == Init /\ [][Next]_vars

-----------------------------------------------------------------------------
(* Properties: those of the modules, of the part that runs.                *)

\* The variables of each part are what its module says.
TypeOK ==
  /\ part = "msgbase" => M!TypeOK
  /\ part = "accounts" => U!TypeOK
  /\ part = "msgarea" => A!TypeOK
  /\ part = "polls" => V!TypeOK
  /\ part = "fail2ban" => F!TypeOK
  /\ part = "lightbar" => L!TypeOK
  /\ part = "pager" => P!TypeOK
  /\ part = "lineedit" => I!TypeOK
  /\ part = "editor" => E!TypeOK
  /\ part = "chat" => C!TypeOK
  /\ part = "oneliners" => O!TypeOK
  /\ part = "door" => D!TypeOK
  /\ part = "client" => B!TypeOK
  /\ part = "files" => Q!TypeOK

\* A number is one message's for ever: no session stores its message over another's
\* (msgbase.py:155), as long as the lock of the database is one for all processes, and
\* but for a number taken while the message of a session that had gone was on its way
\* to be stored under it (dbproxy.py:90-91, db.py:154-165).
MsgNumbersUnique == [][part = "msgbase" => M!KeepsNumbers]_vars

\* The records, tags, private messages and queues of the message base agree when nobody
\* is saving, but for new messages whose save() was cut short, and keys that a session
\* read while a write of one that had gone was on its way.  At any time what they list
\* is stored, and the children of a message are replies to it, but for numbers that
\* two messages took (msgbase.py:161-211).
MsgRecordsAgree ==
  part = "msgbase" => M!ChildrenAreReplies /\ M!ListedExist /\ M!IndexComplete

\* When nobody is saving or deleting, `groupbase' has a user in just the groups that
\* `userbase' gives him, and nobody who was deleted; but for users saved from a
\* copy that another session had overtaken, or left half saved (userbase.py:246-335).
AccGroupsAgree == part = "accounts" => U!GroupsAgree

\* A message that arrives while the menu of the message area is on the screen stays new:
\* what is marked as read for a user is the very message that he was shown, or sent, or
\* that the menu he saw counted as new (msgarea.py:735), unless one of its number was
\* deleted: a later message that gets the number (msgbase.py:155) is taken as read by
\* those to whom the first was offered.
MarkedWereOffered == part = "msgarea" => A!MarkedWereOffered

\* The results of a question are the tally of the records of the users, whatever was voted
\* again, added and deleted before, if users take turns and finish (vote.py), as long
\* as none of its answers was deleted (vote.py:316-327 puts the results in disorder).
TallyIsVotes == part = "polls" => V!TallyIsVotes

\* The entry of an address is made anew as its window closes or its ban ends, and yet no
\* more than MAX_ATTEMPTS + 1 connections are accepted from it within the length of
\* one window, wherever that begins (fail2ban.py:78-115): one more than is configured.
RateBounded == part = "fail2ban" => F!RateBounded

\* What a widget leaves as it was on the screen is still true: a list highlights the item
\* selected and no other, on the page that it is on (lightbar.py:171), but for the rows
\* that a page-up in a short list (lightbar.py:433) and scripts that draw only some of
\* a new list leave stale until they are drawn; a row of a pager shows the line that it
\* has (pager.py:283); a line editor shows the end of its content with the cursor
\* after it (editor.py:440-557).
ScreenIsTrue ==
  /\ part = "lightbar" => L!SelectionShown
  /\ part = "pager" => P!TextShown
  /\ part = "lineedit" => I!ScreenShowsContent

\* Text comes and goes only by typing, erasing, killing lines and undoing: moving, merging,
\* wrapping, joining, inserting lines and resizing the window keep all parts of words, in
\* their order, and run no two words together (default/editor.py).  Words that are
\* broken at the end of a line come back in two.
WordsKept == [][part = "editor" => E!WordsStay]_vars

\* Nobody goes on chatting with a session that does not, as long as no call is mixed up
\* with another: the other end has the chat, is about to be called, or has sent the
\* end of the call (default/chat.py).  Who dials a session that has left waits, and who
\* chats with one that the engine kills is not told (terminal.py:247-259).
CallsHaveTwoEnds == part = "chat" => C!CallsHaveTwoEnds

\* The table of oneliners keeps to its ceiling whenever no session is between adding to it
\* and the end of its trim, and none was ended there or was there with another
\* (default/ol.py:224-251).
HistoryBounded == part = "oneliners" => O!HistoryBounded

\* No key is lost, repeated or overtaken on its way to a door, however little of it the pty
\* takes at a time (bbs/door.py), but for those that another script took, that a
\* DOSDoor drops, or that come when the door ends.
DoorReadsInOrder == part = "door" => D!DoorReadsInOrder

\* Nothing that is buffered for a client that has a terminal is lost or overtaken, however
\* little of it the socket takes at a time (client.py:75-104).
SentInOrder == part = "client" => B!SentInOrder

\* While the file browser waits for a key, the marks of the list its keys act upon are those
\* of its set, in every directory it comes back to; so are those on the screen, unless
\* others changed the files since it was drawn; and the set is the user's record, unless
\* the sftp server has written that since (fbrowse.py:430-480, sftp.py:225).
FlagsAgree == part = "files" => Q!FlagsAgree
=============================================================================
