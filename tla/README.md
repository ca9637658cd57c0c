# x/84 in TLA+

x/84 is a bulletin board system written in python 2: one *engine* process
accepts telnet, ssh and rlogin clients, negotiates with each in a thread, and
forks one *session* process for each; engine and session exchange pickled
events over a pair of pipes. Sessions run scripts, which keep their data in
sqlite files that only the engine's process opens. This directory models that
core and most of what runs on it, checks it with TLC and proves a part of it
with TLAPS.

Contents: [the system](#the-system) ·
[modules](#the-modules) · [runs](#the-runs) · [proofs](#the-proofs) ·
[other things the models show](#other-things-the-models-show) ·
[not modelled](#not-modelled) · [plan](#plan)

## The system

| component | state it keeps | operations | what must be right | module |
|---|---|---|---|---|
| event loop (`engine.py`) | `server.clients`, `server.threads`, the snapshot `terms` of a pass | accept, client_recv, session_recv, client_send, session_send, cleanup, shutdown | no client is lost or polled when closed, a dead one is let go, input and output get through | Engine |
| registry (`terminal.py`) | `TERMINALS`: session id to tty (client, two pipes, timeout) | spawn_client_session, register_tty, unregister_tty, kill_session, on_naws | a tty lives no longer than its client, a process is never dropped without being told | Engine |
| client (`client.py`) | socket, `active`, `recv_buffer`, `send_buffer` | socket_recv, send, send_str, deactivate, shutdown | deactivated for good, bytes kept in order | Engine, ClientIO |
| ssh and rlogin (`ssh.py`, `rlogin.py`) | transport, channel, events set by callbacks; strings received | callbacks of paramiko, run, spawn | end, in a session or in a deactivated client | Connect |
| telnet (`telnet.py`) | local, remote and pending options, environment | IAC commands, sub-negotiation, run | both ends agree, negotiation ends | Telnet |
| rate limit (`fail2ban.py`) | attempts and bans by address | the check of an address | logins within a window are limited: to one more than is configured | Fail2Ban |
| global locks (`engine.py` handle_lock) | `locks`: key to (time, session id) | acquire, release | one holder, freed when its holder goes | Locks |
| session (`bbs/session.py`) | event buffers, script stack, node number | send_event, read_events, buffer_event, runscript, run, close | events in order, scripts resume their callers, the node is unique | Session, Locks |
| doors (`default/sesame.py`, `bbs/door.py`) | the door's node, the pty | acquire_node, Door.run, _loop | one player for each node, keys in order | Locks, Door |
| shared databases (`db.py`, `bbs/dbproxy.py`) | sqlite files, `DATALOCK`, `FILELOCK` | proxy_method, proxy_iter, acquire, release, DBHandler.run | each request gets its own answer, the locks exclude | DbProxy, MsgBase |
| message base (`bbs/msgbase.py`) | records, tag index, private index, network queues | Msg.save, queue_for_network | unique numbers, indexes that agree with the records, unless a session that is gone has left a request | MsgBase |
| message area (`default/msgarea.py`) | what each user has read | menu, reader, editor, tags, delete | what is marked as read was shown or listed, until a number is used again | MsgArea |
| user base (`bbs/userbase.py`, `default/nua.py`, `pwreset.py`, `profile.py`, `matrix.py`, `top.py`) | users, groups | save, delete, apply, log in, reset | users and groups agree | Accounts |
| message network (`msgpoll.py`, `webmodules/msgserve.py`) | `last` file, translation, queue and source databases | poll, publish; pull, post | what is served arrives, once, in its thread | MsgNet |
| widgets (`bbs/lightbar.py`, `pager.py`, `editor.py`) | content, position, what was drawn | keys, update, refresh | the screen shows the content, but for rows that are known to be left | Lightbar, Pager, LineEdit |
| scripts that share data (`default/editor.py`, `vote.py`, `chat.py`, `online.py`, `ol.py`, `fbrowse.py`, `sftp.py`) | drafts, polls, calls, oneliners, flagged files | — | what is read, kept and written back agrees | Editor, Polls, Chat, Oneliners, Files |
| other scripts, configuration, encodings | a user's dialogue, ini files, tables | — | how it looks | — |

How they interact. The engine is one thread that repeats: kill the clients that
are not active; `select()` on the server socket, the sockets of
`server.clients` and the pipes of their sessions; accept; read the sockets;
take the list of terminals; read every event of every session on it; write the
sockets; hand input to the sessions. Four other kinds of actors run between
any two of its steps. Connect threads share client objects and the registry
with it, with no lock. Session processes share only the pipes. Threads of
DBHandler carry out what sessions ask of a database, and threads of the message
poller and the web server save messages of their own. Peers hang up.
A session is killed by `kill_session`, which closes its socket, leaves a
`Disconnected` in its pipe and closes the pipe; the process runs on until it
reads that. Within a session scripts call each other, and an event may run one
inside another's `read_event()`.

What is hard. The loop acts on a snapshot while sessions are unregistered
under it; a connect thread registers a tty after looking once at whether the
client still lives; a lock's holder may be dead, or alive and forgotten; a
release is taken from anybody; an answer may outlast the wait it was for, and
bears no number; a record is read, kept while the user thinks, and written back
whole; two indexes are changed one after the other by a process that may end in
between, with its last request still to be executed; a message is stored before
it is tagged; a number is given again; a poller crashes after it saved and before
it noted that it did. The complete list is `hazards` in `PROJECT.json`, each with
the line where it bites and the properties that cover it, or a note that says
what none of them covers.

## The modules

Each module is a component with its own state, actions and properties. `Engine`
and `Locks` have MC modules of their own. The others need small state spaces
and have questions of the same kind, so they are checked together: `MCExchanges`
and `MCBoard` instantiate them as *parts* that take turns with the same
variables `x1`, `x2`, ... A behaviour is one of the part that its initial
state chooses (`part` never changes), and each property is the module's own,
stated for the part that runs. Nothing of a module is changed by this: its
`Init`, `Next` and properties are used through `INSTANCE ... WITH`.

### Engine (`Engine.tla`, `MCEngine.tla`)

The loop with everything that runs beside it. A client, its connect thread,
process and tty share one identity, as the session id is made of the
client's address and port.

| variable | code |
|---|---|
| `link`, `wire` | the tcp connection as the server sees it (`away`, in the `backlog`, `up`, `hup`, `shut`), and the one chunk its peer sends |
| `clients`, `active`, `recvbuf`, `sendbuf` | `server.clients`, `client.active`, whether the buffers hold anything |
| `connect` | where `run()` of the connect thread is; `spawn` follows the last `is_active()`, `register` follows `Process.start()` |
| `proc`, `emitted` | the session process; `closing` when it has read `Disconnected` |
| `terminals`, `timeout` | `TERMINALS`, `tty.timeout` |
| `up`, `down` | what is in the two pipes of a session |
| `phase`, `ready`, `terms`, `todo` | the loop's position, what `select()` returned, the snapshot, what `session_recv` has still to drain |

`Cleanup`, `Select`, `Accept`, `ClientRecv` (with `get_terminals()`),
`ClientSend` and `SessionSend` are the parts of a pass of `_loop`, each one
step. `session_recv` is finer, one step for each event or end-of-file:
`RecvExit`, `RecvOutput`, `RecvRoute`, `RecvGlobal`, `RecvSetTimeout`,
`RecvRemoteDisconnect`, `RecvEof`, and `Drained` when `poll()` is false.
`Shutdown` is ^C, between any two steps. `ReadClients` is `client_recv` with the
`socket_recv` of a client: keystrokes are buffered, a telnet window size goes to
the session at once (`on_naws`). `KillSession(K)` with
`Disconnecting(K)` is `kill_session` for the clients of `K`. A write to a pipe
that the engine closed, or whose reader is dead for good (`Unwritable`), raises
`IOError`: in `route` and `global` that ends `session_recv` for this pass
(`Abort`), in `session_send` it kills the client, and in `on_naws` nothing
catches it: the loop ends (`phase` `died`).

Details that the model takes from the code and a reader may miss:

- `accept` compares the number of clients with `>` before adding one:
  `MAX_CONNECTIONS + 1` are admitted.
- the timeout of the ini file is a string; python 2 orders every number below
  every string, so nobody is idle until `set-timeout` stores a number.
- `remote-disconnect` compares `data[0]`, the first character of the session id
  that `online.py` sends, with session ids: it never matches (`FirstItem`). The
  branch behind the comparison would disconnect the asker.
- the end-of-file of a dead process may be late, or never come: the engine's
  `Process` object holds copies of the session's ends of the pipes until the
  next `Process.start()` joins it (`StartProcess`, `reaped`), and processes
  forked meanwhile hold others (`PipeEof`).
- a session answers `AYT` and `info-req` by itself, with a `route` to the asker
  (`ReadOther`).
- the loop polls the pipes of clients in `server.clients`, but drains every
  tty of the registry once one of them is ready.

### Locks (`LockService.tla`, `Locks.tla`, `MCLocks.tla`)

`handle_lock` and its two users. A session's life is `Start` (which asks for
node 1), `NodeGranted`/`NodeRefused` (`Session.node`), `EnterDoor`,
`DoorGranted`/`DoorRefused`, `LeaveDoor` (`acquire_node`), `Logoff`
(`Session.close` and the `exit` of `start_process`); it may also fail in the
door, have its wait interrupted by what an event-driven `gosub` raises, crash,
or read `Disconnected`. `Register` is the connect thread. The engine's side is
`HandleAcquire`, `HandleRelease`, `HandleExit` and `Kill`, on one message at a
time. `locks` maps each key to its holder or `None`, `outbox` and `replies` are
the pipes and the session's buffers, one for each key.

All callers pass `stale=None`, so the branch that takes a lock from a live
holder for its age (engine.py:318-331) cannot be reached and is not modelled. A
session id is used once; a client that returns from the same port would be
taken for the holder of its predecessor's locks.

`LockService` is what the locks promise: at most one owner of a key, granted
only when free or its own, given back only by the owner, all given back when
the owner leaves. `Locks` implements it for node keys, with the owner of a key
read as its holder *if the holder is registered*: a dead session's entry stays
in the dictionary, and the moment of its `Leave` is its `unregister_tty`.

### Session (`Session.tla`)

One session process: its pipe, its buffers of events by name, the script stack
and the scripts, each called by the one before. `ReadBuffered`, `Wait`,
`ReceiveBuffered`, `ReceiveInfoReq`, `ReceiveGosub`, `ReceiveException`, `TimeOut` are
`read_events` and `buffer_event`; `Gosub`, `Return`, `Fail`, `GoTo`, `Disconnect`,
`EndOfStack` are `runscript`, the ways a script ends, and `run`. A `gosub` that
arrives while a script waits runs another inside it, and what that leaves of its
kinds of events comes to the next reader. Scripts are arbitrary. The ghost
`calls` is the true nesting that the `script_stack` is compared with.

### DbProxy (`DbProxy.tla`)

The requests of one session, the threads of `DBHandler` (any order) and the
answers in the pipe. `MakeRequest` flushes the buffer first, `ReadBuffered` and
`Receive` take what comes under the database's name, `NextItem` and
`LeaveIteration` are a generator that its user may abandon, `Interrupt` and
`Resume` are a `gosub` whose script makes requests of its own. Answers name the
database, not the request: `OwnAnswer` holds for requests that were not mixed
with another (`mixed`, a ghost); for the others the code gives no promise. A
request whose database cannot be opened is never answered (`unopened`).

### MsgBase (`MsgBase.tla`)

`Msg.save()` as the requests it makes: `Acquire`, `Number` and `Store` (the
number of a new message), `ReadTags`/`WriteTags`, `SaveParent` (which saves a
parent that saves *its* parent: the stack `saves`), `ReadPriv`/`WritePriv`,
`SaveForNetwork`; each atomic, as `DbProxy` has them, in a thread of the engine.
`Disconnect` ends a session while it waits in one of them: the locks are freed as
the exception leaves each `with`, and the request may still be to execute (`left`,
`Requests`). `Execute` is the thread that does so, at any later time, whoever holds
the lock by then. Three ghosts tell apart what that spoils: `cut` are the numbers of
new messages whose `save()` ended early, `astray` those that were taken while a
message was on its way to the database under them, `adrift` the keys of an index that
were read, to be written, while another write of them was on its way.

`NumbersUnique` is about numbers that did not go astray; `ChildrenAreReplies` too.
`IndexComplete` is about messages whose own save was not cut short and keys that did
not go adrift: a save that was cut short leaves a record without its tags, and nothing
in the code ever completes it. `ListedExist` has no exception: whatever is cut
short, and however late, no index and no network has a number without its message.

`SharedLocks` says whether the lock of the database was made
before the sessions were forked. It is when the engine's own process has
saved a message (msgpoll). When it is not, each session makes one for
itself, which the run `msgbase_locks` shows not to exclude.

### MsgNet (`MsgNet.tla`)

A hub and its members. A post is saved in steps (`UserPosts`, `UserSaves`): the record
is there before it is tagged, at the hub, or queued, at a member, and `SaveIsCut` is the
session killed between. The member's `Pull`, `Store`, `Record`, `OpenLast`, `WriteLast`,
`Push`, `Sleep` are `poll` and `publish` step by step; the hub's `HubSaves`, `HubTags`,
`HubRecords` are `post` of msgserve, `Answers` its `pull`, which goes by what is `tagged`.
`Crash` restarts a member at any step, `PullFails` and `PushFails` lose an answer
whether or not the request was carried out. A crash between `OpenLast`, which empties
the last file, and `WriteLast` leaves it `Blank`: `int('')` then ends the poller's
thread (`Stop`), at this start and every later one. The hub has messages `Before` the
network begins, so that there is more to pull than an answer holds. A message is known by the post it was written as (`post`); on a board
it has the number at which it was saved there, and `trans` relates the two. An answer
of the hub and what a member has left to do (`batch`, `todo`) are sets of numbers, least
first: the answer is in their order, and messages do not change once they are saved.

What the properties leave out is what the code loses. `QueuedOrPublished` excepts a
message whose session is yet to queue it or was killed before it did. `NetDelivered`
is about a message that is tagged before the member has stored, or asked for, one with
a higher number: one that is stored as number n but tagged after a poll was served
n + 1 is never asked for again. Excepted are, too, what an answer that is full leaves out
(`IsLeftOut`: it is cut from an unordered set, and `last` moves on to the highest),
and a poller that has stopped.

### Accounts (`Accounts.tla`)

Sessions that log in, make, edit, regroup and delete accounts. A
`User` is a copy: `CopyOf` reads it, `SaveUser` writes it whole, and
`SaveGroups`/`DeleteGroups` derive `groupbase` from the copy, each a request.
`where` is the script and the prompt it waits at; `SaveThen` says where it goes
on. The ghosts `stale` and `tainted` mark users that were saved from a copy that
another session had overtaken, or whose save was cut short: about these the code
promises nothing, about all others `GroupsAgree`.

### Telnet (`Telnet.tla`)

Both ends of the option negotiation. `HandleDo`, `HandleDont`, `HandleWill`,
`HandleWont` are the branches of the IAC commands, `HostReceive` the loop that
takes one; `Decode` the sub-negotiations; `Banner`, `Negotiated`, `Spawn`, `GiveUp` are `ConnectTelnet.run`.
The distant end is external: it follows RFC 854, answers as it likes and
changes its mind `MaxWhims` times, when nothing is in flight (two changes that
cross make even two correct ends disagree). What the host sends in one call
is sent at once. `reply_pending` is left out: nothing that is modelled reads it.

### Fail2Ban (`Fail2Ban.tla`)

The whole function with its clock: `Blacklisted`, `BanExpired`, `StillBanned`,
`Counted`, `WindowClosed`, `Ban`, `Extend`, `First` are its branches in their
order. `accepted` is a ghost for the rate. A ban is assumed no shorter than the
window (`Fail2BanAssumption`), as it is by default.

The code and its documentation disagree here. fail2ban.py:13 says of
`max_attempted_logins` "max no. of logins allowed for given time window"; the function
compares the attempts before this one with `>`, so that a window holds
`max_attempted_logins + 1`. `RateBounded` states what the code does, with the `+ 1`; with
the number that is documented it is false at the second connection when the limit is 1.

### Connect (`Connect.tla`)

The connect threads of ssh and rlogin, each poll of theirs a step; the callbacks
`CheckAuth`, `OpenChannel`, `ShellRequest`, `SubsystemRequest` that paramiko
runs in its thread while they poll; the strings of an rlogin client, counted,
and read by the loop and the thread from one buffer (`Read`, `Take`,
`LoopReceive`), or more than the thread reads (`TooMuchData`); and the loop that shuts down whoever is not active. The limits
of time are `MaxWait` polls.

### ClientIO (`ClientIO.tla`)

`send_str` and `send` with the steps that the interpreter may separate: the
buffer is an object, `FromString`/`Extend` find it and append to it, `NewBuffer`/
`Push`/`Rebuffer` read it, replace it, and put back what the socket did not take.
While a client negotiates two threads do this and bytes are lost; once
it has a terminal (`Connected`) the loop alone does. `SentInOrder` is about
what is buffered from then on (the ghost `before` tells them apart).

### Door (`Door.tla`)

The pty loop of `Door` and `DOSDoor`: `Select`, `InputEvent` with what the pty
does not take pushed back into the session's buffer (`Rebuffered`), `Resized`,
`RefreshEvent`, `ChildExits`, the first seconds of a DOSDoor in which input is
dropped, and a `gosub` that reads keys meanwhile. Keys are numbered as typed.

### Lightbar, Pager, LineEdit

The widgets with the rows they have drawn. In `Lightbar` keys move the selection
and `refresh_quick` redraws only rows thought to have changed. A script gives it
another list and then draws the whole window (`Update`), only the row selected
(`UpdateRow`: fbrowse.py:439-445, editor.py:249-254) or, when lines were killed, no
row of it (`UpdateKilled`: editor.py:438-439). `stale` are the rows that had to change
and were not drawn since: those, and the two of a page-up in a list shorter than the
window, which moves the selection before it looks where it is (`PageUpShort`,
lightbar.py:433). Every other row must show its item, and be highlighted if and only if it
is selected; a stale row is out of `SelectionShown` until it is drawn. `Pager` scrolls and appends. `LineEdit`
is both editors of one line: `LineEditor` erases at the cursor wherever that is;
`ScrollingEditor` scrolls its text sideways within its margins. Characters have
one column.

### MsgArea (`MsgArea.tla`)

Readers, writers and a sysop in the message area, each with the lists its menu
was drawn from. `DrawMenu`, `ReadMessages`, `MarkAll`, `Display`, `GoToMessage`,
`EditTags`, `Delete`, `Reply`, `Send` are what a key does there. Numbers in a list
may by then be those of a message that was deleted, retagged or replaced
(`KeyError`). A message is known to the code by its number, and the number of the
highest is given again once it is deleted: `which` tells the messages of a number
apart, `deleted` are the numbers whose message was deleted, `known` what each user was
shown, sent, or listed as new. So `MarkedWereOffered` says of a number that was never deleted
that the user was offered this message, and of others only that the user was offered
*a* message of that number; that a new message is taken as read where its number was
is what the code does. Whoever replies may change the tags of the parent.
`Msg.save()` is one step here, tags are not moderated, a user has one session.

### Editor (`Editor.tla`)

The editor of messages: lines that end hard or soft, one of which is copied
into a line editor and merged back. Every change joins the lines to a text and
wraps that again (`Rewrapped`). Wrapping breaks a word at a hyphen, or where it is
longer than a line (editor.py:121), and the next join puts a blank there
(editor.py:104): typing is by the parts of words, each with whether the word goes on
after it. `WordsStay` is that no part is lost or moved and no two words run together
but by typing, erasing, killing and undoing. It is not that words stay whole: they do
not.

### Polls, Oneliners, Chat, Files

`Polls`: whoever votes, adds or deletes reads whole tables and writes them back;
`TallyIsVotes` is about users who take turns and finish, as votes are lost otherwise
(`spoiled`). Deleting an answer (vote.py:316-327) does not touch the records of who
voted: the tally of its question is wrong from then on (`shuffled`), and the property
is about the others, those that move to another index when a question is deleted included.

`Oneliners`: sessions add, merge what a thread fetched from the wall,
and trim, request by request; nothing keeps two from trimming at once, so
`HistoryBounded` is about sessions that take turns and finish (`disturbed`).

`Chat`: who is online, calls by `gosub` in whatever
the called reads, with nested chats; `from` is a ghost, since the events do not
say who sent them, and `mixed` marks calls that were mixed up. When the engine kills a session,
`unregister_tty` flushes what it has not read of its pipe and closes it before the session
knows: `Unheard` is the last event the engine reads, and from then on what the session
sends, the `HANGUP` of `do_hangup` included, reaches nobody. Who chats with such a session
is not told, and stays in the chat.

`Files`: the flagged files of one user, browsed in a terminal and by sftp at the same
time, each writing its own set. What the list holds (`listed`) is kept apart from what the
screen shows of it (`drawn`): `Flag` reloads the first and draws two rows of the second
(`Below`), so that rows which sftp's additions have shifted stay as they were; the
screen agrees with the list while nobody else changes the files (`steady`). `Saved` writes
nothing for `anonymous`. A file that sftp opens to write is unflagged
there (`Put`).

## The runs

| run | bounds | shows |
|---|---|---|
| `engine_safety` | 2 clients that type or resize, `MAX_CONNECTIONS` 1, 1 event and its answer | `PolledSocketsOpen`, `ActiveSessionsPolled`, `KilledSessionsTold`, `NoRevival` and types, 6.1 million states |
| `engine_liveness` | 2 clients, no events but `exit` | hang-ups are noticed, input is delivered, exits disconnect, killed processes end |
| `engine_orphan` | 1 client | **violated**: `DeadClientsLoseTheirTty` |
| `engine_naws` | 2 clients that resize | **violated**: `NeverReturns` |
| `engine_broadcast` | 3 logged in, 1 event besides the exits | **violated**: `BroadcastReachesAll` |
| `locks_safety` | 3 sessions, 3 numbers, 1 door node, 1 interrupted wait | unique and sufficient node numbers, releases by holders only, exclusive doors, refinement of `LockService`, 1.5 million states |
| `locks_liveness` | 2 sessions, 1 number for both, 2 door nodes | every wait for a number or a door ends, in a grant or when all are refused |
| `locks_door` | 2 sessions, 1 door node, 1 interrupted wait | **violated**: `DoorExclusive` |
| `exchanges` | five parts, below | every part that waits for an answer: the right one comes, in the end; 149 thousand states |
| `board` | fourteen parts, below | what the sessions share and what the user sees stay consistent; 1.8 million states |
| `msgbase_locks` | 2 sessions, 2 messages, a lock each | **violated**: `NumbersUnique` |
| `connect_refused` | 1 client | **violated**: `DeactivatedIsInactive` |

Why the bounds are enough to be interesting. With two clients one can be killed
while the other's events are drained, before and after it in the loop's order,
and `MAX_CONNECTIONS = 1` still admits both. One event in all is enough for a
route to, or a broadcast before, a session that has exited; every handler of
`session_recv` fires. `MaxEvents` also bounds the pipes. Three sessions let one
be refused a number by a second that leaves while the third takes it. A
`BroadcastReachesAll` violation needs a third session that is still alive, hence
three clients, started logged in (a state `Spec` reaches) to keep the run small.
`SYMMETRY` is used for safety only.

The parts of `exchanges`:

| part | bounds | property | why enough |
|---|---|---|---|
| DbProxy | 2 requests, 1 `gosub`, iterations of 1 item | `DbOwnAnswer`, `DbAnswered` | one request within another's wait, and one after another that was abandoned |
| MsgNet | 1 member, 2 messages before and 2 posts after, batches of 2, 1 crash, lost answer or killed session | `NetThreadsFaithful`, `NetExactlyOnce`, `NetDelivered` | a reply to a reply across both boards, a pull repeated after a crash, a batch that is cut, a last file left empty |
| Session | 2 scripts, 2 events, 2 calls one in another, 1 `global` kept | `ScriptsNest` | a script interrupted twice, a buffer at its limit |
| Telnet | SGA, TTYPE and ECHO, 1 change of mind | `TelnetAgreement`, `HandshakesSettle` | an option both ends want, one that has a sub-negotiation, one the host insists on; requests that cross |
| Connect | 2 waits, 2 attempts to log in, sftp on | `HandshakesSettle` | each stage runs out of time or is overtaken, for either server |

The parts of `board`:

| part | bounds | property |
|---|---|---|
| MsgBase | 2 sessions, 3 messages, tags `public` and one served to a network, 1 disconnection | `MsgNumbersUnique`, `MsgRecordsAgree` |
| Accounts | 2 sessions, 1 handle, 1 group, 1 try each | `AccGroupsAgree` |
| MsgArea | a reader and a sysop, 2 posts, 2 visits | `MarkedWereOffered` |
| Polls | a user and a sysop, 2 questions with 2 answers, 4 operations | `TallyIsVotes` |
| Fail2Ban | a black, a white and another address, 5 tries in 7 ticks, windows and bans of 2 | `RateBounded` |
| Lightbar, Pager, LineEdit | heights 4 and 3, lists of 0 to 5 and of 10 and texts of up to 5, width 8 and lengths up to 11 | `ScreenIsTrue` |
| Editor | 2 parts of words, one of which may go on, in a text of 2, lines of 1 or 2 parts | `WordsKept` |
| Chat | 2 sessions, 2 calls | `CallsHaveTwoEnds` |
| Oneliners | 2 sessions, a history of 2 and 1 more tolerated, 6 written | `HistoryBounded` |
| Door | 3 keys, 1 resize, 1 `gosub` | `DoorReadsInOrder` |
| ClientIO | 3 writes, 4 buffers | `SentInOrder` |
| Files | 2 shared and 1 uploaded, sorted between them, a sysop, who is not anonymous | `FlagsAgree` |

Three messages make a reply to a reply, whose save saves two parents, while the
other session saves one of them. Five tries let an address fill a window, be
banned, try within the ban, and return after it. A list of 10 in a window of 4
has two full pages and a part of one; shorter lists are one page, one less or more,
or nothing, and a script may give any of them at any time. One disconnection in
MsgBase is enough for a store that is executed after another session has taken its
number. Two sessions are enough for calls that cross and for a chat
inside a chat, as each can be called while it waits. `SYMMETRY` permutes the
sessions of MsgBase, Accounts, Chat and Oneliners. Deadlock is checked by every run but
`board`, in which scripts and doors simply end; the engine
stops only after ^C (`Halted`), sessions only when all are gone (`Finished`).

Each property of a passing run has a mutant in `PROJECT.json`: a definition of
the module, changed as a bug would change the code, under which TLC finds the
property violated. The mutated forms stand before the definitions they replace
and are marked as such; no specification uses them.

### What the violations say

- `DeadClientsLoseTheirTty`. The connect thread tests `is_active()`
  (telnet.py:907) and then forks and registers (terminal.py:373-388). If the
  client hangs up in between, the loop kills it and deletes it from
  `server.clients`; the tty appears afterwards. No later pass looks at it: its
  process is told nothing, and waits for a user who is gone until it times out
  by its own means.
- `NeverReturns` ("Main event loop. Never returns.", engine.py:436). Session 1
  exits; session 2 is started, which closes the engine's copies of 1's ends of
  the pipes; in the next pass the loop reads a window size of client 1 before
  the `exit` of its session, and the `IOError` of the write ends it.
- `BroadcastReachesAll`. Session 1 exits, session 2 broadcasts, in one pass: the
  write to the closed pipe of 1 raises `IOError` out of `session_recv`, and
  session 3 never sees the message.
- `DoorExclusive`. Session 1 asks for a door node, its wait is unwound by an
  exception and the answer stays in its buffer; it asks again when session 2
  holds the node, is refused, but reads the old answer first. Without an
  interrupted wait the property holds (`DoorExclusiveUninterrupted`).
- `NumbersUnique` ("Acquire system-wide lock on database.", dbproxy.py:94).
  `get_db_lock` keeps the locks in `DATALOCK`, a dictionary of the process that
  asks (db.py:57-66). Two sessions that were forked before anything in the
  engine's process made the lock have one each: both are inside `with db_msg`,
  compute the same next number, and the second message replaces the first. When
  the locks are shared the numbers are unique (`MsgNumbersUnique`).
- `DeactivatedIsInactive` ("Flag client for disconnection by engine loop.",
  client.py:174). `SshClient.is_active()` (ssh.py:84-90) looks at the transport
  and the channel once there are both, and not at the flag: a client whose
  connect thread gave up and called `deactivate()` stays connected, and
  counted, until the peer closes.

### Fairness

Engine: `Loop` is weakly fair, because `select()` waits 20 ms and no step
blocks (pipes are unbounded in the model). A connect thread is weakly fair as
each stage of its negotiation is limited in time; it may end in failure at any
of them. `ReadEvent` is weakly fair: scripts read input, or poll. A session that
has read `Disconnected` ends: nothing catches it before `run()`. Nothing is
assumed of peers, of events a session need not send, of exits it need not make,
of crashes, or of end-of-file.

Locks: the engine drains the pipes of registered sessions, the connect thread
registers the tty, a waiting process reads. An orphan tty of `engine_orphan`
is drained only when another session wakes the loop; the assumption is for
sessions whose client is in `server.clients`.

Exchanges: threads of DBHandler run to their end, and a session reads its pipe,
takes the next item, and ends the scripts that interrupted it. Hub and member
go on with what they do, and their faults are bounded. Of telnet, the loop
receives, the connect thread goes from stage to stage, time passes; the distant
end answers what it hears, but need not agree to anything. Of ssh and rlogin,
the connect thread steps and its waits end: nothing is assumed of the peer.
`board` has safety only.

## The proofs

Eight modules of proofs are checked by tlapm to the last leaf. `EngineProofs` and
`LocksProofs` extend the components they are about. `MsgBaseProofs` (`MsgBase`,
`Accounts`, `Oneliners`) is about what is kept in shared databases, `ClientProofs`
(`Fail2Ban`, `ClientIO`, `Door`, `Lightbar`, `Pager`, `LineEdit`) about a client and what
it sees, `ScriptProofs` (`Polls`, `Files`, `MsgArea`, `Chat`) about scripts whose sessions
share data, `SessionProofs` (`Session`, `DbProxy`, `MsgNet`, `Telnet`, `Connect`) about those who take
answers and messages in turn: scripts, requests, boards, and the ends of a connection. `BoardProofs` and
`ExchangesProofs` carry these theorems over to the properties of the runs `board`
and `exchanges`.

### EngineProofs

For every number of clients, of events and every `MAX_CONNECTIONS`, whatever
peers may type. The only assumption is `EngineAssumption`: `NumClients` is a
positive natural, `MaxConnections` and `MaxEvents` are naturals, `Typing` holds
nothing but keystrokes and window sizes.

| theorem | states |
|---|---|
| `TypeCorrect` | `Spec => []TypeOK` |
| `PolledAreOpen` | `Spec => []PolledSocketsOpen` |
| `ActiveArePolled` | `Spec => []ActiveSessionsPolled` |
| `KilledAreTold` | `Spec => []KilledSessionsTold` |
| `ClientsNeverReturn` | `Spec => NoRevival` |

- `Types` adds `Idle` to `TypeOK`: outside `session_recv` nothing is left to
  drain, so that `todo` is still within the snapshot when `SessionSend` drops it.
- `SocketsInv` is behind `PolledAreOpen` and `ActiveArePolled`. A socket is shut
  only by what also deactivates its client (`ActiveOpen`), and an active client
  is always in `server.clients` (`ActivePolled`); `Cleanup` then drops whatever is
  not active before the sockets are polled. `PolledSocketsOpen` alone is not
  inductive: it says nothing of the phases that do the killing.
- `ToldInv` is behind `KilledAreTold`. A client not yet accepted has no connect
  thread (`Fresh`), and no process runs before its pipes are open (`Unstarted`):
  so a running process with a closed pipe had it closed by `kill_session`, which
  has left `Disconnected` there. Later events are appended behind it and
  earlier ones removed before it (`AppendedEvents`, `RemainingEvents`), and the
  process that reads it no longer runs on.
- `NoRevival` needs types only: it is shown action by action that no step but
  `Accept`, which is for a new connection, adds to `active` or `clients`.

### LocksProofs

For every finite or infinite set of sessions and every `NumNodes`, `DoorNodes`, `MaxInterrupts`.
The only assumption is `LocksAssumption`: the two numbers of nodes are
positive naturals, `MaxInterrupts` is a natural, `None` is no session; and for
`NodesAreEnough` its hypothesis, that there are finitely many sessions, and no more
than node numbers.

| theorem | states |
|---|---|
| `TypeCorrect` | `Spec => []TypeOK` |
| `NodesAreUnique` | `Spec => []UniqueNodes` |
| `ReleasesAreOwn` | `Spec => []ReleasesOwnNode` |
| `NodeLocksImplement` | `Spec => ImplementsLockService` |
| `NodesAreEnough` | `Spec => []NodesSuffice`, with as many numbers as sessions |
| `DoorNodesAreExclusive` | `Spec => []DoorExclusiveUninterrupted` |

`UniqueNodes` is not inductive: what makes a number a session's own is that the
engine recorded it, and what keeps it recorded is that no release for it is
under way. The inductive invariant `NodeInv` adds to `TypeOK`:

- `NodesHeld`: a registered, running session whose node is n, or in whose
  buffers a positive answer for n lies, is the holder of n in `locks`;
- `Unanswered`: a session whose tty is not registered yet holds nothing, was
  answered nothing and has sent no release;
- `ReleasesHeld`, `ReleasesFinal`, `OneRelease`: a release of a node in the pipe
  of a registered session is of a node it holds; a pipe holds one only when
  the process is gone, and at most one.

Initiation, consecution (one step for each action, one lemma for each engine
action) and the consequences are separate lemmas; TLC checked `NodeInv` as an
invariant first. The refinement maps `HandleAcquire` of a granted node key to
`Grant`, `HandleRelease` to `Release` (this is where `ReleasesHeld` is needed:
the engine itself would take it from anyone), `Register` to `Join`,
`Kill`/`HandleExit` to `Leave`, and the rest to stuttering.

`NodesAreEnough` is a pigeonhole argument. A session that was refused number n
met another that held it, and may since have left; so "all others hold a lower
number" is not invariant. What is (`SufficeInv`): for a session that has been
refused 1 .. n - 1 there are n - 1 other sessions, one for each number, that
once held it and never ask again. The map from a number to such a session is
injective, as a session holds at most one number in its life, so n exceeds neither
`Cardinality(Session)` nor `NumNodes`.

`DoorNodesAreExclusive` is `NodeInv` again for door keys (`DoorNodeInv`), with a
session that may ask more than once: at most one request, answer or release of
it is under way at a time, which is just what an interrupted wait breaks, and
why the run `locks_door` finds `DoorExclusive` violated without that hypothesis.

### MsgBaseProofs

For any sessions, users, tags, posts and bounds that satisfy `MsgBaseAssumption`
(users are not tags, as the code tells them apart by the database) and with
`SharedLocks`: without it the first theorem is false, which is the run
`msgbase_locks`.

| theorem | states |
|---|---|
| `NumbersAreUnique` | `Spec => NumbersUnique`: no step stores one message over another |
| `ChildrenAreOnlyReplies` | `Spec => []ChildrenAreReplies` |
| `ListedAreStored` | `Spec => []ListedExist` |
| `IndexesAreComplete` | `Spec => []IndexComplete` |

The exceptions that `NumbersUnique`, `ChildrenAreReplies` and `IndexComplete` make are
those of the code (see MsgBase above): a number that was taken while the message of a
session that had gone was on its way to it, a key of an index likewise, and a save that
was itself cut short. For all else the theorems hold however many sessions are
disconnected wherever in `save()`, and however late what they leave is executed.

The inductive invariant `MsgBaseInv` says of every call of `save()` in the stack
of every session what is true at its step: that it is inside the lock of
`msgbase` and its number is the next free one (`StoreOK`); that what it is about
to save differs from what is stored in the children at most, and that those
children are replies (`StoredOK`); that the index it read is still the index, as it
is inside the lock of it (`SeenOK`); and that what it has already written is there
(`IndexOK`). Of each request that a disconnected session left it says that what it writes
agrees with what is stored by then, but for what it is to change, unless its number has
gone astray or its key adrift; and that no two of them contradict each other (`LeftOK`).
A number goes astray only if the save it was first taken for was cut short (`AstrayCut`). A call that waits for one it made is at a step that relies on
nothing it read (`Waits`). With it come `LocksExclude`, `NumbersDense`,
`ParentsStored`, `ListedExist`, and `SavedOrSaving`: a message whose save was not cut short is in
its indexes, or its save is still in some stack. `ParentsStored` was found to be
needed only in the proof: a parent is saved whole, and that save saves *its* parent.
Steps are described by what they do to the stack (`Replaced`, `Pushed`, `Popped`),
with one lemma for each on what it preserves, then one lemma for each action.

The users and the oneliners are in the same module:

| theorem | states | assuming |
|---|---|---|
| `GroupsAgreeWithUsers` | `U!Spec => []U!GroupsAgree` | nothing |
| `TableIsTrimmed` | `O!Spec => []O!HistoryBounded` | `OnelinersAssumption`: the history is a positive natural (0 in the ini file means the default), the other bounds are naturals |

- `GroupsAgree` speaks of moments in which nobody saves or deletes. `AccountsInv` says
  what is so in between: the databases agree on whoever no session is half-way
  with (`HalfWay`), a session that is to save the groups of a copy has saved the copy
  (`Saved`), one that is to delete the user has taken him out of all groups
  (`Removed`), and no two do so with one user from copies that are both fresh
  (`OneAtATime`): the first that saves makes the other's copy `stale`. It is the
  ghost that makes this inductive; without it the property fails, as it does in
  the code.
- `HistoryBounded` needs what each stage of a trim goes by (`Trims`): the copy is the
  table as long as nobody else adds, what is to be deleted is in the table, and the
  table exceeds its ceiling by no more than is still to be deleted. What is added
  before a trim is at most `MAX_HISTORY` records, or the session's own, so that the
  surplus, which is what a trim leaves, is within the ceiling: at most n records have
  fewer than n older ones (`FewWithFewOlder`), as no two have the same time.

### ClientProofs

| theorem | states | assuming |
|---|---|---|
| `RateIsLimited` | `F!Spec => []F!RateBounded` | `Fail2BanAssumption`: a ban no shorter than a window, as by default |
| `ClientIsSentInOrder` | `B!Spec => []B!SentInOrder` | `ClientAssumption` |
| `DoorIsReadInOrder` | `D!Spec => []D!DoorReadsInOrder` | `DoorAssumption` |
| `SelectionIsShown` | `L!Spec => []L!SelectionShown` | `LightbarAssumption` |
| `TextIsShown` | `G!Spec => []G!TextShown` | `PagerAssumption` |
| `ContentIsShown` | `I!Spec => []I!ScreenShowsContent` | `LineEditAssumption` |

- `RateBounded` is one login more than fail2ban.py:13 documents (see Fail2Ban above).
  `RateInv` relates the entry of an address to its history. All that was accepted
  lies a window or more before the end of its ban, or of its entry
  (`AcceptedBefore`), so that nothing accepted after either end is in a window
  with it; and a window that is still open has no more than the entry counts (`Counts`).
- `ClientInv` adds to `SentInOrder` what is true in the middle of `send()` and
  `send_str()` of the loop (`LoopIsAt`), and that the connect thread, wherever it
  stopped, no longer touches the buffer in use.
- `DoorInv` adds that consumed keys were typed. Places keep their order by lemmas
  on what appending, taking the head, and splitting a chunk do to ascending
  sequences of keys.
- `LightbarInv` adds to `SelectionShown` that the page begins in the list and ends at
  most one row after it: a move that draws only some rows is right because of it. For
  every row that is not `stale` this holds whatever script draws one row or none after
  an update, and goes on from there.
- `PagerInv` adds that the position is the first line, as `BottomIsTop` has it.
- `LineEditInv` says for both editors which characters are hidden, and that what is
  not fits the columns before the cursor. `ScrollingEditor` counts shift and position
  anew, character by character, when it scrolls: `Counted` is a recursive function, and
  `CountedUnfolds` proves that it satisfies its recursion, `CountedFits` what it
  counts, each by the least number for which it would fail (`LeastNatural`).

### ScriptProofs

| theorem | states | assuming |
|---|---|---|
| `TallyIsKept` | `V!Spec => []V!TallyIsVotes` | `PollsAssumption`: there are finitely many users, sysops are users, the bounds are naturals |
| `FlagsAreTrue` | `Q!Spec => []Q!FlagsAgree` | `FilesAssumption`: files are numbers, finitely many, and none is both shared and uploaded |
| `MarksAreOfOffered` | `M!Spec => []M!MarkedWereOffered` | nothing |
| `ChatsHaveTwoEnds` | `C!Spec => []C!CallsHaveTwoEnds` | nothing |

- `TallyIsVotes` counts the users whose record names an answer, for the questions no
  answer of which was deleted (`shuffled`, which follows them to a new index). It is not
  inductive, as a vote writes the results first and the record of the user
  after. `PollsInv` says, of an unspoiled table, that one user at a time is past
  the menu; that the copy this user has read is the table (`HoldsTable`) or, once it is
  written, that the results count the records as they will be with the vote
  (`HoldsVote`); and that they count the records when nobody is between the two.
  The lemmas are about what one more vote, one withdrawn, and an answer or a
  question taken out do to the cardinality of those who voted for each.
- `FilesInv` adds to `FlagsAgree` that the set is the record, unless that was
  written since, as long as the browser is open, in a download as well; and that the list
  is the one that set and files give (`Listing`) as long as nobody else has changed
  the files. That is why two rows are enough to draw: no other row of that list changes
  with the flag of one file. `ListingIsTrue` is that any list shows the set it was made of.
- `MarkedInv` says that what is marked, and what the menu on the screen counts as new, the
  user was told of by its number (`MarksOK`), which is what `MarkAll` goes by, however old
  the menu is; that a message the user knows is still the one of its number, unless that of
  the number was ever deleted (`KnownOK`); and so is the one that a session has in hand
  to give other tags (`DraftsOK`), which is written back under the number.
- `CallsHaveTwoEnds` says of a session in a chat that the other has the chat too,
  unless an end or the invitation is under way, or one of them is being killed
  (`unheard`). What is under way must itself be
  true: whoever sent an invitation or an answer that was not read yet is in the
  chat, or has sent its end after it (`PipeTrue`, `BufferTrue`), which the order of the
  pipe keeps. So a session that begins a chat, or goes from dialing to talking, does
  so with one that has it, or with the end of it before it. `ChatInv` holds until a
  chat begins within another or an event of another chat is read (`mixed`); a
  session then has one chat at most.

### SessionProofs

| theorem | states | assuming |
|---|---|---|
| `StackNests` | `S!Spec => [](S!TypeOK /\ S!StackIsCalls)` | `SessionAssumption`: the matrix script is a script, scripts read kinds of events, the bounds are naturals, `GlobalMax` is positive |
| `EventsAreInOrder` | `S!Spec => [][S!EventsInOrder /\ S!InterruptedIsRefreshed]_vars` | the same |
| `AnswersAreOwn` | `D!Spec => [](D!TypeOK /\ D!OwnAnswer)` | `DbProxyAssumption`: the bounds are naturals |
| `ThreadsGoAlong` | `N!Spec => []N!ThreadsFaithful` | nothing |
| `MessagesGoOnce` | `N!Spec => [](N!QueuedOrPublished /\ N!SavedOnce)` | `MsgNetAssumption`: the hub is no member of itself, the bounds are naturals |
| `NetworkTyped` | `N!Spec => []N!TypeOK` | the same |
| `EndsAgree` | `T!Spec => [](T!TypeOK /\ T!Agreement)` | `TelnetAssumption`: what the distant end speaks are options, the bound is a natural |
| `ConnectsTyped` | `C!Spec => []C!TypeOK` | `ConnectAssumption`: a thread waits at least once, the bound is a natural |

- `SessionInv` says that the scripts of the calls are the last of the script stack
  (`Nested`: a `goto` replaces the last of both, an exception leaves what is
  below), and for `page` and `global` that numbers rise from the last taken along
  the buffer and then along the pipe (`InOrder`). A flush, a buffer that drops
  what exceeds its limit, and a nested script that takes events of its own keep
  that order, by a lemma for each. The two action properties follow from the
  invariant before the step and the step itself, by cases of `Next`.
- `OwnAnswer` alone says nothing of what is under way. `DbInv` says that, until two
  requests are mixed, there is at most one, the buffers are empty, and whatever is
  in the pipe or still in a handler is an answer to that one (`OnlyOf`), in a form
  (`Stream`) in which what ends an answer (a result, `StopIteration`, an
  exception) is the last thing sent. So when the session stops to read, nothing is
  left for the next request to find. The exception that `func()` raises is why
  this had to be said: it ends an iteration anywhere, and its scripts with it.
- `QueuedOrPublished` excepts what a session is still saving, or was killed before it
  queued (`saves`, `cut`). `NetInv` follows a parent on its way. What is tagged or being saved is on its board (`SavesFaithful`). What a board saved lies under its author's
  parent (`BoardsFaithful`); a request to the hub carries the hub's number of that parent,
  or none (`RequestFaithful`); what a member pulled and has saved but not yet noted in
  `trans` is there under the least number of its `batch` (`WorkFaithful`). Boards only
  grow, so each of these outlives the steps of others, and a crash, which leaves `put`
  and loses what the member remembered.
- `OnceInv` adds `Queued`, and while there were no faults `Once`, which is what makes a
  save the first of its post. A member has one request at most, for the message that it
  waits for (`Awaited`). What is queued is on the hub only when that request has put it
  there (`Unpublished`), and the hub notes whose it is before it answers (`Sourced`),
  which keeps it out of the member's pulls. What a member has of others it has up to
  `netLast`, or is recording (`Pulled`), so that what it pulls next it has not.
- `Agreement` speaks of moments in which nothing is on its way. `TelnetInv` says what
  is so before: the distant end tells every change, so that the host, when it has heard
  what is on its way, holds what that end holds now (`Told`: the last command about the
  option decides, and without one what the host held before). The host follows what it
  hears of these options. What could break this is a refusal that crosses a request of the
  distant end: the invariant has it that no DONT and no WONT is on its way when one is
  made (`mine[o] = "asked"`), and that no WONT is ever sent about the options that the
  host lends (ECHO, SGA, BINARY).
- `ConnectInv` counts the strings of an rlogin client where they are: on their way, in
  the buffer, and with the connect thread. While the thread is between reading the
  buffer and putting a new one there (`take`), the same string is in two places, so that
  the sum of all three is bounded only outside of it.
- The types of the network follow from `NetInv`, which says which numbers are those of
  messages, and `NetBounded`, of the bounds alone.

### BoardProofs and ExchangesProofs

The runs `board` and `exchanges` instantiate components as parts over shared
variables. For each of them that is proved about, the step of the run is a step
of the part as long as `part` is its name, so the invariant of the component is
one of the run: `BoardMsgNumbersUnique`, `BoardMsgRecordsAgree`,
`BoardRateBounded`, `BoardSentInOrder`, `BoardDoorInOrder`, `BoardTallyIsVotes`,
`BoardFlagsAgree`, `BoardAccGroupsAgree`, `BoardHistoryBounded`, `BoardMarkedWereOffered`,
`BoardCallsHaveTwoEnds`, `BoardScreenIsTrue`, `ExchangesOwnAnswer`,
`ExchangesScriptsNest`, `ExchangesThreadsFaithful`, `ExchangesExactlyOnce`,
`ExchangesTelnetAgreement` and `ExchangesTypeCorrect` state the runs' own properties. The constants of these parts are constants of `MCBoard` and
`MCExchanges`, given values in `Board.cfg` and `Exchanges.cfg`, and any others that
meet the assumptions would do. The fairness in the specification of `exchanges`
is not used.

### What is only model-checked

Of safety, in `board` its `TypeOK` as a whole and `WordsKept`; of `exchanges`, all is proved.
The last is about how a whole text is wrapped, which only an induction over its words
would show for every text; the induction theorems of the library take an operator,
which the provers cannot instantiate. (A function over numbers can be proved about
by its least counterexample, as `LineEdit` has it.)
All liveness, which is out of the prover's reach together with `ENABLED`. The
violated properties are shown by their counterexamples. No module declares a
`RECURSIVE` operator, so that each can be proved about.

## Other things the models show

Behaviour of the code that a reader of the models meets, follows the source
line by line, and would perhaps not expect. No run stands for these; where a
property would be violated by one, the property says what it leaves out.

Between engine and client:

- accept admits `MAX_CONNECTIONS + 1`; the ini file's timeout never ends
  anybody; `remote-disconnect` never matches (see Engine above).
- client.py:85: the connect thread and the loop both run `send()` and
  `send_str()` while a client negotiates; bytes are lost between two of their
  steps.
- A `WONT` is answered by `DONT` even when it answers a request, since
  `_handle_wont` clears `reply_pending` before it looks at it (telnet.py:597);
  two ends that change their minds in flight disagree, as RFC 854 lets them;
  `LINES` and `COLUMNS` have defaults (client.py:42), so that the stage that waits for the
  window's size never does; the encoding `UNKNOWN` is -1, which is true
  (telnet.py:941).
- The recv_buffer of an rlogin client is read by the loop and by its thread; the
  strings are taken for complete when there are three NULs.
- A client that asks for a shell and then for sftp changes kind in the
  middle of `run`; what an earlier attempt to log in has set stays set.

Within a session:

- Input that is pushed back comes out last in, first out (session.py:549).
- `poll` of a door never reads the pipe, so the final flush of a DOSDoor leaves
  data there; `Disconnected` within the loop of a door leaves its child unwaited.
- A request of a database inside another's wait takes its answer
  (`mixed` of DbProxy).

Messages, users and files:

- `newmsg` and `oneliner` are sent as the data of `global`, under which no script
  reads them (msgarea.py:692, ol.py:258).
- A session that is disconnected in a call of a database frees its locks, and the call
  is executed all the same (dbproxy.py:90-91, db.py:154-165): a message may be stored
  over another that took its number meanwhile, an index written without what another
  session added (`astray`, `adrift`).
- A save that is cut short leaves a record without tags, or out of the network's queue, for
  good.
- What a user has read is read, changed and written with no lock;
  the highest message deleted gives its number to the next, which those who had read
  the former have then read, and the children of
  a deleted message keep it as their parent; the tags that a user may give are
  united (`|`) where an intersection seems meant.
- Message 0 of a hub is never served (msgserve.py:190), and a batch is cut from
  an unordered set, so that what is left out is not asked for again. A message that is
  stored before another and tagged after it is skipped by a member that polls between.
- A member that ends between opening its last file and writing it (msgpoll.py:256-257)
  polls no more until somebody repairs the file.
- A copy of a user that another session saved since overwrites that
  (`stale` of Accounts).
- Votes that cross are lost; deleting an answer shifts the numbers that the
  users' records point to.
- An address may connect once more within a window than fail2ban.py:13 documents.
- Merging lines and resizing the window put a blank into a word that was broken at a
  hyphen, or was longer than a line (editor.py:104, 121).
- The trim of the oneliners, "trim-to MAX_HISTORY" (ol.py:228), sorts the records by
  their time and deletes from `len(udb) - MAX_HISTORY` on, which are the
  `MAX_HISTORY` latest (ol.py:238): the few oldest stay. The table does keep to
  its ceiling (`HistoryBounded`).
- Two sessions that trim the oneliners at once may count each other's additions
  and delete nothing, or delete a record twice, which is a `KeyError`; a post that
  fails is dropped (ol.py:199); the test on the elapsed time is the other way
  around (ol.py:303).
- Browser and sftp each write their whole set of flagged files; an upload that
  fails unlinks a file that was there (fbrowse.py:238); an archive without a
  description is stored with that of the one before (fbrowse.py:508-513); a file
  that is gone when it is sent ends the script.
- Who chats with a session that the engine kills is not told (`unheard` of Chat).
- Events of a chat bear no sender; a chat inside a chat discards what is typed to
  the outer one; whoever dials a session that has just left is never answered.

Widgets:

- `Lightbar.update()` to a shorter list while it is scrolled can leave a negative
  shift: the model marks a position that no list has (`unsound`) and does not follow it
  further. The End key on an empty list raises an IndexError.
- A page-up in a list shorter than the window leaves the row it came from highlighted
  and the one it went to as it was; a file that is flagged after sftp changed the files,
  and lines that are merged or killed, leave rows of the list there was (`stale`).
- The bottom of a `Pager` is always 0, so that End shows less than the last page;
  `update` leaves rows of the old text.
- The backspace of `LineEditor` takes one column of a character that has two.

## Not modelled

- Pipes have no limit, and so no `send` blocks (engine.py:404); how much fits
  depends on the pickled size of events.
- Engine: `logger` events, the contents of buffers and events. `select.error`
  leads back to the top of the loop; it stands for a closed descriptor,
  which `PolledSocketsOpen` excludes. One server stands for all. A peer that
  leaves while still in the backlog, which the kernel hides until the first read.
- Session: recordings, the import of scripts, the attributes that `online` shows.
- Databases: sqlite itself.
- Message network: tokens, text, the web server that carries requests, and the first
  making of a last file (msgpoll.py:176-180).
- Message area and editor: requests that a disconnected session leaves (MsgBase has them).
- Accounts: how passwords and passkeys are made, attributes that save themselves.
- Telnet: the decoding of bytes to commands, LINEMODE, the content of STATUS.
- ssh and sftp: keys, window changes, folders that are made; rlogin's `new@`
  goes on as any other login.
- Doors: output, drop files, the telnet client script.
- Widgets: frames, colours, ansi art, the selector, characters of two columns; the file
  browser puts the selection back where it was in a directory without asking whether the
  list still has it.
- Scripts of one user (main, logoff, lc, tetris, weather, news, si, ...) and
  clients of services on the internet (ircchat, hackernews): local state whose
  correctness is how it looks.
- Configuration, which reads and writes ini files once, before the loop.
- Encodings, which are tables.

## Plan

1. An abstract specification of the message network (a set of messages that only
   grows and is copied) and of a session's buffers (a FIFO for each event), with
   refinements.
2. Bounded pipes in Engine, for the two blocking sends.
