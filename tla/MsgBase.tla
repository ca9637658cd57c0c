------------------------------ MODULE MsgBase ------------------------------
(***************************************************************************)
(* Sessions that post messages at the same time (bbs/msgbase.py).          *)
(*                                                                         *)
(* Msg.save() makes several calls of the shared databases, each one atomic *)
(* by itself (module DbProxy), some of them within an acquire() and a      *)
(* release() of DBProxy.  It saves the parent of a reply again, which      *)
(* saves its own parent, and so on; and a message of a network that the    *)
(* board serves is saved twice.                                            *)
(*                                                                         *)
(* A call is a request that a thread of the engine executes (db.py:154).   *)
(* A session that is disconnected leaves save() with its locks freed and   *)
(* its request where it is: the thread may execute it later, when others   *)
(* hold the lock.                                                          *)
(*                                                                         *)
(* DATALOCK belongs to a process (db.py).  A lock is shared when it was    *)
(* made before the sessions were forked, as it is once the engine's own    *)
(* thread (msgpoll) has saved a message: SharedLocks.  Otherwise each      *)
(* session makes one for itself.                                           *)
(***************************************************************************)
EXTENDS Integers, Sequences, SequencesExt, FiniteSetsExt

CONSTANTS
  Session,
  User,         \* recipients of private messages
  Tag,          \* tags other than 'public'
  ServerTag,    \* [msg] server_tags
  NetworkTag,   \* [msg] network_tags
  SharedLocks,  \* whether the locks were made before the sessions
  Posts,        \* sets of tags that users give messages (a bound)
  MaxMsgs,      \* messages, and disconnections with them (a bound)
  MaxCuts       \* disconnections within save() (a bound)

Public == "public"

MsgBaseAssumption ==
  /\ ServerTag \subseteq Tag /\ NetworkTag \subseteq Tag
  /\ User \cap (Tag \cup {Public}) = {}
  /\ SharedLocks \in BOOLEAN
  /\ Posts \subseteq SUBSET (Tag \cup {"public"})
  /\ MaxMsgs \in Nat /\ MaxCuts \in Nat

Num    == 0 .. MaxMsgs - 1
None   == -1
Key    == Tag \cup {Public} \cup User    \* of the databases 'tags' and 'privmsg'
Lock   == {"msgbase", "tags", "privmsg", "trans"}

VARIABLES
  msgs,   \* 'msgbase': messages by number
  index,  \* 'tags' and 'privmsg': the numbers of each tag and recipient
  trans,  \* '<tag>trans' of the networks served: numbers
  queue,  \* '<tag>queues' of the networks joined: numbers
  lock,   \* the sessions that hold each lock
  saves,  \* by session, the calls of save() it is in, the innermost last
  left,   \* requests of disconnected sessions that the engine has yet to execute
  cuts,   \* disconnections so far
  cut,    \* numbers of new messages whose save() was cut short
  astray, \* numbers taken while a message was about to be stored under them
  adrift  \* keys of an index read while they were about to be written

left_over == <<left, cuts, cut, astray, adrift>>
vars == <<msgs, index, trans, queue, lock, saves, left, cuts, cut, astray, adrift>>

Msg  == [author : Session, tags : SUBSET (Tag \cup {Public}), to : User,
         parent : Num \cup {None}, children : SUBSET Num]
Step == {"number", "store", "read tags", "write tags", "parent", "read priv",
         "write priv", "queue", "stored for network"}
Save == [step : Step, num : Num \cup {None}, msg : Msg, new : BOOLEAN,
         seen : [Key -> SUBSET Num]]

\* A request: a database, a key of it and what is written there
Request == ({"msgbase"} \X Num \X Msg) \cup ({"index"} \X Key \X SUBSET Num)
             \cup ({"trans", "queue"} \X Num \X Num)

TypeOK ==
  /\ DOMAIN msgs \subseteq Num
  /\ msgs \in [DOMAIN msgs -> Msg]
  /\ index \in [Key -> SUBSET Num]
  /\ trans \subseteq Num
  /\ queue \subseteq Num
  /\ lock \in [Lock -> SUBSET Session]
  /\ saves \in [Session -> Seq(Save)]
  /\ left \subseteq Request
  /\ cuts \in 0 .. MaxCuts
  /\ cut \subseteq Num
  /\ astray \subseteq Num
  /\ adrift \subseteq Key

Init ==
  /\ msgs = << >>
  /\ index = [k \in Key |-> {}]
  /\ trans = {}
  /\ queue = {}
  /\ lock = [l \in Lock |-> {}]
  /\ saves = [s \in Session |-> << >>]
  /\ left = {}
  /\ cuts = 0
  /\ cut = {}
  /\ astray = {}
  /\ adrift = {}

-----------------------------------------------------------------------------
(* Helpers.                                                                *)

\* A call of save() that session s is in; `new' is idx being None.
At(s, step) == saves[s] # << >> /\ Last(saves[s]).step = step

Top(s) == Last(saves[s])

NothingSeen == [k \in Key |-> {}]

Begun(msg, num, new) ==
  [step |-> IF new THEN "number" ELSE "store", num |-> num, msg |-> msg, new |-> new,
   seen |-> NothingSeen]

\* mutant of Acquire: the lock is not waited for
AcquireAtOnce(s, l) == lock' = [lock EXCEPT ![l] = @ \cup {s}]

\* DBProxy.acquire
Acquire(s, l) ==
  /\ IF SharedLocks THEN lock[l] = {} ELSE s \notin lock[l]
  /\ lock' = [lock EXCEPT ![l] = @ \cup {s}]

Release(s, l) == lock' = [lock EXCEPT ![l] = @ \ {s}]

GoTo(s, step) == saves' = [saves EXCEPT ![s][Len(saves[s])].step = step,
                                        ![s][Len(saves[s])].seen = NothingSeen]

\* The keys of a database that requests are left for
LeftFor(database) == {r[2] : r \in {x \in left : x[1] = database}}

-----------------------------------------------------------------------------
(* Msg.save.                                                               *)

\* A user posts a message, public or not, with a tag or a parent or neither.
Post(s, tags, to, parent) ==
  /\ saves[s] = << >>
  /\ Cardinality(DOMAIN msgs) + cuts < MaxMsgs    \* a bound
  /\ parent \in DOMAIN msgs \cup {None}
  /\ saves' = [saves EXCEPT ![s] =
       <<Begun([author |-> s, tags |-> tags, to |-> to, parent |-> parent,
                children |-> {}], None, TRUE)>>]
  /\ UNCHANGED <<msgs, index, trans, queue, lock, left_over>>

\* The next number is that after the highest.
Number(s) ==
  /\ At(s, "number")
  /\ LET n == IF msgs = << >> THEN 0 ELSE Max(DOMAIN msgs) + 1 IN
       /\ n \in Num
       /\ saves' = [saves EXCEPT ![s][Len(saves[s])].num = n,
                                 ![s][Len(saves[s])].step = "store"]
       /\ astray' = astray \cup ({n} \cap LeftFor("msgbase"))
  /\ Acquire(s, "msgbase")
  /\ UNCHANGED <<msgs, index, trans, queue, left, cuts, cut, adrift>>

\* The record is stored.  A message that has a number acquires the lock here.
Store(s) ==
  /\ At(s, "store")
  /\ msgs' = [n \in DOMAIN msgs \cup {Top(s).num} |->
                IF n = Top(s).num THEN Top(s).msg ELSE msgs[n]]
  /\ \/ s \in lock["msgbase"] /\ Release(s, "msgbase")
     \/ /\ s \notin lock["msgbase"]
        /\ SharedLocks => lock["msgbase"] = {}
        /\ UNCHANGED lock
  /\ GoTo(s, "read tags")
  /\ UNCHANGED <<index, trans, queue, left_over>>

ReadIndex(s, l, keys, step, next) ==
  /\ At(s, step)
  /\ Acquire(s, l)
  /\ saves' = [saves EXCEPT ![s][Len(saves[s])].seen = index,
                            ![s][Len(saves[s])].step = next]
  /\ adrift' = adrift \cup (keys \cap LeftFor("index"))
  /\ UNCHANGED <<msgs, index, trans, queue, left, cuts, cut, astray>>

ReadTags(s) == ReadIndex(s, "tags", Key \ User, "read tags", "write tags")

\* The number is added to the tags that miss it and taken from those that have
\* it without reason; the others are not written.
Tagged(save, k) ==
  IF k \in save.msg.tags THEN save.seen[k] \cup {save.num} ELSE save.seen[k] \ {save.num}

Retagged(save) == {k \in Key \ User : Tagged(save, k) # save.seen[k]}

WriteTags(s) ==
  /\ At(s, "write tags")
  /\ index' = [k \in Key |-> IF k \in Retagged(Top(s)) THEN Tagged(Top(s), k) ELSE index[k]]
  /\ Release(s, "tags")
  /\ GoTo(s, "parent")
  /\ UNCHANGED <<msgs, trans, queue, left_over>>

\* mutant of AfterParent: a reply is not entered for its recipient
AfterParentReply(save) ==
  IF Public \notin save.msg.tags /\ save.msg.parent = None THEN "read priv" ELSE "queue"

AfterParent(save) == IF Public \notin save.msg.tags THEN "read priv" ELSE "queue"

\* mutant of SaveParent: the parent is saved under the number of the reply
SaveParentAsReply(s) ==
  /\ At(s, "parent")
  /\ Top(s).msg.parent # None
  /\ LET n == Top(s).msg.parent IN
       saves' = [saves EXCEPT ![s] =
         Append(Front(@) \o <<[Top(s) EXCEPT !.step = AfterParent(Top(s))]>>,
                Begun([msgs[n] EXCEPT !.children = @ \cup {n}], n, FALSE))]
  /\ UNCHANGED <<msgs, index, trans, queue, lock, left_over>>

\* The parent is read, gets a child and is saved, as a message that has a number.
SaveParent(s) ==
  /\ At(s, "parent")
  /\ Top(s).msg.parent # None
  /\ LET n == Top(s).msg.parent IN
       saves' = [saves EXCEPT ![s] =
         Append(Front(@) \o <<[Top(s) EXCEPT !.step = AfterParent(Top(s))]>>,
                Begun([msgs[n] EXCEPT !.children = @ \cup {Top(s).num}], n, FALSE))]
  /\ UNCHANGED <<msgs, index, trans, queue, lock, left_over>>

NoParent(s) ==
  /\ At(s, "parent")
  /\ Top(s).msg.parent = None
  /\ GoTo(s, AfterParent(Top(s)))
  /\ UNCHANGED <<msgs, index, trans, queue, lock, left_over>>

ReadPriv(s) == ReadIndex(s, "privmsg", {Top(s).msg.to}, "read priv", "write priv")

WritePriv(s) ==
  /\ At(s, "write priv")
  /\ LET save == Top(s) IN
       index' = [index EXCEPT ![save.msg.to] = save.seen[save.msg.to] \cup {save.num}]
  /\ Release(s, "privmsg")
  /\ GoTo(s, "queue")
  /\ UNCHANGED <<msgs, trans, queue, left_over>>

Returned(s) == saves' = [saves EXCEPT ![s] = Front(@)]

\* queue_for_network, of a new message.  One of a network that is served is saved
\* again, as it is in memory, with the origin line, before it is recorded.
SaveForNetwork(s) ==
  /\ At(s, "queue")
  /\ Top(s).new
  /\ Top(s).msg.tags \cap ServerTag # {}
  /\ Acquire(s, "trans")
  /\ saves' = [saves EXCEPT ![s] =
       Append(Front(@) \o <<[Top(s) EXCEPT !.step = "stored for network"]>>,
              Begun(Top(s).msg, Top(s).num, FALSE))]
  /\ UNCHANGED <<msgs, index, trans, queue, left_over>>

StoredForNetwork(s) ==
  /\ At(s, "stored for network")
  /\ trans' = trans \cup {Top(s).num}
  /\ Release(s, "trans")
  /\ Returned(s)
  /\ UNCHANGED <<msgs, index, queue, left_over>>

\* save() returns; a new message of a network that is joined is queued.
Return(s) ==
  /\ At(s, "queue")
  /\ ~(Top(s).new /\ Top(s).msg.tags \cap ServerTag # {})
  /\ queue' = IF Top(s).new /\ Top(s).msg.tags \cap NetworkTag # {}
              THEN queue \cup {Top(s).num} ELSE queue
  /\ Returned(s)
  /\ UNCHANGED <<msgs, index, trans, lock, left_over>>

\* The request that session s waits for, one of these, if it writes; of the keys
\* that WriteTags writes it is one, after others and before others.
Requests(save) ==
  {<<"msgbase", save.num, save.msg>> : x \in {"store"} \cap {save.step}}
    \cup {<<"index", k, Tagged(save, k)>> :
            k \in {x \in Retagged(save) : save.step = "write tags"}}
    \cup {<<"index", save.msg.to, save.seen[save.msg.to] \cup {save.num}>> :
            x \in {"write priv"} \cap {save.step}}
    \cup {<<"trans", save.num, save.num>> : x \in {"stored for network"} \cap {save.step}}
    \cup {<<"queue", save.num, save.num>> :
            x \in {t \in NetworkTag \cap save.msg.tags :
                      save.step = "queue" /\ save.new /\ save.msg.tags \cap ServerTag = {}}}

\* Disconnected is raised as the session waits in a call of the databases: each
\* `with' releases its lock as the exception leaves it.  The request is left to
\* the engine, or lost.
Disconnect(s) ==
  /\ saves[s] # << >>
  /\ cuts < MaxCuts
  /\ cuts' = cuts + 1
  /\ cut' = cut \cup ({saves[s][i].num : i \in {j \in DOMAIN saves[s] : saves[s][j].new}} \ {None})
  /\ saves' = [saves EXCEPT ![s] = << >>]
  /\ lock' = [l \in Lock |-> lock[l] \ {s}]
  /\ \/ UNCHANGED left
     \/ \E r \in Requests(Top(s)) : left' = left \cup {r}
  /\ \E done \in SUBSET Retagged(Top(s)) :
       /\ done = {} \/ At(s, "write tags")
       /\ index' = [k \in Key |-> IF k \in done THEN Tagged(Top(s), k) ELSE index[k]]
  /\ UNCHANGED <<msgs, trans, queue, astray, adrift>>

\* DBHandler.run, of a request whose session is gone
Execute(r) ==
  /\ r \in left
  /\ left' = left \ {r}
  /\ msgs' = IF r[1] = "msgbase"
             THEN [n \in DOMAIN msgs \cup {r[2]} |-> IF n = r[2] THEN r[3] ELSE msgs[n]]
             ELSE msgs
  /\ index' = [k \in Key |-> IF r[1] = "index" /\ k = r[2] THEN r[3] ELSE index[k]]
  /\ trans' = IF r[1] = "trans" THEN trans \cup {r[2]} ELSE trans
  /\ queue' = IF r[1] = "queue" THEN queue \cup {r[2]} ELSE queue
  /\ UNCHANGED <<lock, saves, cuts, cut, astray, adrift>>

\* No number is left: where the bound ends the run.
Finished ==
  /\ Cardinality(DOMAIN msgs) + cuts >= MaxMsgs
  /\ \A s \in Session : saves[s] = << >> \/ At(s, "number")
  /\ UNCHANGED vars

SaveStep(s) ==
  \/ Number(s)
  \/ Store(s)
  \/ ReadTags(s)
  \/ WriteTags(s)
  \/ SaveParent(s)
  \/ NoParent(s)
  \/ ReadPriv(s)
  \/ WritePriv(s)
  \/ SaveForNetwork(s)
  \/ StoredForNetwork(s)
  \/ Return(s)

Next ==
  \/ \E s \in Session :
       \/ \E tags \in Posts, to \in User, parent \in Num \cup {None} :
            Post(s, tags, to, parent)
       \/ SaveStep(s)
       \/ Disconnect(s)
  \/ \E r \in left : Execute(r)
  \/ Finished

Spec == Init /\ [][Next]_vars

-----------------------------------------------------------------------------
(* Properties.                                                             *)

\* A number is one message's for ever: no session stores its message over
\* another's (msgbase.py:155, max(keys) + 1 under the lock of 'msgbase'), unless it
\* took the number while the message of a session that had gone was on its way to
\* the database under it.
KeepsNumbers ==
  \A n \in DOMAIN msgs :
    /\ n \in DOMAIN msgs'
    /\ n \notin astray => msgs'[n].author = msgs[n].author /\ msgs'[n].parent = msgs[n].parent

NumbersUnique == [][KeepsNumbers]_vars

\* What a message has as children are replies to it, whoever was cut off as it
\* saved a reply or a parent; but a number that went astray names two messages.
ChildrenAreReplies ==
  \A n \in DOMAIN msgs : \A c \in msgs[n].children :
    c \in DOMAIN msgs /\ (c \notin astray => msgs[c].parent = n)

\* What an index or a network has is a message, at every moment and whatever was
\* cut short: no number is published before its message.
ListedExist ==
  /\ \A k \in Key : index[k] \subseteq DOMAIN msgs
  /\ trans \cup queue \subseteq DOMAIN msgs

\* When nobody is saving, each message whose own save() was not cut short is found
\* under its tags and, if it is not public, by its recipient; under no other tag;
\* and is recorded for the networks it is meant for.  Others may have been cut off
\* as they saved it as a parent.  Keys that went adrift are left out: those that a
\* session read, to write them, while the write of one that had gone was on its way.
Indexed(n) ==
  /\ \A tag \in (Tag \cup {Public}) \ adrift : n \in index[tag] <=> tag \in msgs[n].tags
  /\ Public \notin msgs[n].tags /\ msgs[n].to \notin adrift => n \in index[msgs[n].to]
  /\ msgs[n].tags \cap ServerTag # {} => n \in trans
  /\ msgs[n].tags \cap NetworkTag # {} /\ msgs[n].tags \cap ServerTag = {} => n \in queue

IndexComplete ==
  (\A s \in Session : saves[s] = << >>) => \A n \in DOMAIN msgs \ cut : Indexed(n)
=============================================================================
