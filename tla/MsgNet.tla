------------------------------- MODULE MsgNet -------------------------------
(***************************************************************************)
(* A message network: the board that serves it (webmodules/msgserve.py)    *)
(* and its members, which poll it and publish to it (msgpoll.py).          *)
(*                                                                         *)
(* Members crash and restart, and an answer of the server may be lost      *)
(* whether or not it carried out the request.  A post is saved at the      *)
(* board of its author, with what module MsgBase says of that, and in the  *)
(* steps that matter here: the record is stored before it is tagged, which *)
(* is how the hub finds it, or queued; a session that is killed between    *)
(* leaves it like that.                                                    *)
(*                                                                         *)
(* The i-th message of a board has the number i - 1.  A message does not   *)
(* change, so that a copy of it that goes to another board is represented  *)
(* by its number.  What a member has to store and to publish is sorted: it *)
(* is a set, of which the least goes first.                                *)
(***************************************************************************)
EXTENDS Integers, Sequences, FiniteSetsExt

CONSTANTS
  Hub,       \* the board that serves the network
  Member,    \* the boards that are members of it
  Batch,     \* messages in one answer: 20
  Before,    \* messages that the hub has before it has members
  MaxPosts,  \* messages that users post, with these (a bound)
  MaxFaults  \* crashes, lost answers and killed sessions (a bound)

MsgNetAssumption ==
  Hub \notin Member /\ Batch \in Nat \ {0} /\ MaxPosts \in Nat
  /\ Before \in 0 .. MaxPosts /\ MaxFaults \in Nat

Board == {Hub} \cup Member
Post  == 1 .. MaxPosts
Saved == Nat \ {0}
None  == 0
Blank == -2   \* of a last file that was opened to be written, and is empty

VARIABLES
  posts,   \* what users posted: by which board's user, and in reply to what
  msgs,    \* 'msgbase' of each board: the post, and the parent it is saved with
  source,  \* '<net>source' of the hub: the boards that messages came from
  trans,   \* '<net>trans' of each member: hub's message -> its own
  queue,   \* '<net>queues' of each member: its messages to be published
  last,    \* the last file of each member
  netLast, \* net['last'] of each member, in memory
  pc,      \* where each member's poller is
  batch,   \* the hub's messages it has still to store, by their numbers there
  keys,    \* the keys of trans as the poll began
  todo,    \* its messages it has still to publish
  put,     \* requests the hub carries out
  faults,  \* crashes, lost answers and killed sessions so far
  tagged,  \* the set of the network's tag at the hub: what it serves
  saves,   \* posts that users are saving: stored, by board and number
  cut      \* those whose session was killed there

memory == <<netLast, pc, batch, keys, todo>>
saving == <<tagged, saves, cut>>
vars   == <<posts, msgs, source, trans, queue, last, memory, put, faults, saving>>

Message == [post : Post, parent : Nat]
Request == [by : Member, msg : Saved, post : Post, parent : Nat, id : Nat]

TypeOK ==
  /\ posts \in Seq([by : Board, to : 0 .. MaxPosts])
  /\ \A b \in Board : msgs[b] \in Seq(Message)
  /\ \A i \in DOMAIN source : i \in Saved /\ source[i] \in Member
  /\ \A m \in Member : \A i \in DOMAIN trans[m] : i \in Saved /\ trans[m][i] \in Saved
  /\ queue \in [Member -> SUBSET Saved]
  /\ last \in [Member -> Nat \cup {-1, Blank}]
  /\ netLast \in [Member -> Nat \cup {-1}]
  /\ pc \in [Member -> {"poll", "store", "record", "write", "publish", "wait", "stopped"}]
  /\ batch \in [Member -> SUBSET Saved]
  /\ keys \in [Member -> SUBSET Saved]
  /\ todo \in [Member -> SUBSET Saved]
  /\ put \subseteq Request
  /\ faults \in 0 .. MaxFaults
  /\ tagged \subseteq DOMAIN msgs[Hub]
  /\ \A a \in saves \cup cut : a[1] \in Board /\ a[2] \in DOMAIN msgs[a[1]]

Init ==
  /\ posts = [i \in 1 .. Before |-> [by |-> Hub, to |-> 0]]
  /\ msgs = [b \in Board |->
       IF b = Hub THEN [i \in 1 .. Before |-> [post |-> i, parent |-> None]] ELSE << >>]
  /\ source = << >>
  /\ trans = [m \in Member |-> << >>]
  /\ queue = [m \in Member |-> {}]
  /\ last = [m \in Member |-> -1]
  /\ netLast = [m \in Member |-> -1]
  /\ pc = [m \in Member |-> "poll"]
  /\ batch = [m \in Member |-> {}]
  /\ keys = [m \in Member |-> {}]
  /\ todo = [m \in Member |-> {}]
  /\ put = {}
  /\ faults = 0
  /\ tagged = 1 .. Before
  /\ saves = {}
  /\ cut = {}

-----------------------------------------------------------------------------
Save(b, post, parent) ==
  msgs' = [msgs EXCEPT ![b] = Append(@, [post |-> post, parent |-> parent])]

With(f, i, x) == [j \in DOMAIN f \cup {i} |-> IF j = i THEN x ELSE f[j]]

\* What users of a board see and can reply to: at the hub, what has its tag.
Readable(b) == {i \in DOMAIN msgs[b] : <<b, i>> \notin saves /\ (b = Hub => i \in tagged)}

\* A user of a board posts a message or replies to one.  Msg.save stores the record;
UserPosts(b, parent) ==
  /\ Len(posts) < MaxPosts
  /\ posts' = Append(posts,
       [by |-> b, to |-> IF parent = None THEN 0 ELSE msgs[b][parent].post])
  /\ Save(b, Len(posts'), parent)
  /\ saves' = saves \cup {<<b, Len(msgs'[b])>>}
  /\ UNCHANGED <<source, trans, queue, last, memory, put, faults, tagged, cut>>

\* then it is tagged, and, at a member, queued;
UserSaves(b, i) ==
  /\ <<b, i>> \in saves
  /\ saves' = saves \ {<<b, i>>}
  /\ IF b = Hub
     THEN tagged' = tagged \cup {i} /\ UNCHANGED queue
     ELSE queue' = [queue EXCEPT ![b] = @ \cup {i}] /\ UNCHANGED tagged
  /\ UNCHANGED <<posts, msgs, source, trans, last, memory, put, faults, cut>>

\* unless the session is killed before.
SaveIsCut(b, i) ==
  /\ <<b, i>> \in saves
  /\ faults < MaxFaults
  /\ faults' = faults + 1
  /\ saves' = saves \ {<<b, i>>}
  /\ cut' = cut \cup {<<b, i>>}
  /\ UNCHANGED <<posts, msgs, source, trans, queue, last, memory, put, tagged>>

-----------------------------------------------------------------------------
(* The hub.                                                                *)

\* mutant of Pending: a board's own messages are sent to it
PendingAll(m) == {i \in tagged : i - 1 > Max({0, last[m]})}

\* mutant of Pending: the message after the last one is left out
PendingFromNext(m) ==
  {i \in tagged : i - 1 > Max({0, last[m] + 1}) /\ ~(i \in DOMAIN source /\ source[i] = m)}

\* msgs_after: the messages of others after the last one seen, in any order (a
\* set is enumerated).  GET makes a last of -1 into 0.
Pending(m) ==
  {i \in tagged : i - 1 > Max({0, last[m]}) /\ ~(i \in DOMAIN source /\ source[i] = m)}

\* serve_messages_for stops at the limit; the poller sorts what it gets.
Answers(m) ==
  {s \in SUBSET Pending(m) : Cardinality(s) = Min({Batch, Cardinality(Pending(m))})}

\* Without the first of what is sorted
Rest(s) == s \ {Min(s)}

\* receive_message_from: the message is stored
HubSaves(r) ==
  /\ r \in put
  /\ r.id = 0
  /\ Save(Hub, r.post, r.parent)
  /\ put' = (put \ {r}) \cup {[r EXCEPT !.id = Len(msgs'[Hub])]}
  /\ UNCHANGED <<posts, source, trans, queue, last, memory, faults, saving>>

\* and tagged,
HubTags(r) ==
  /\ r \in put
  /\ r.id # 0 /\ r.id \notin tagged
  /\ tagged' = tagged \cup {r.id}
  /\ UNCHANGED <<posts, msgs, source, trans, queue, last, memory, put, faults, saves, cut>>

\* publish_network_messages, of a message that is pushed.  (That the id is in
\* trans already is not found out: a number is looked for among strings.)
Answered(r) ==
  /\ trans' = [trans EXCEPT ![r.by] = With(@, r.id, r.msg)]
  /\ queue' = [queue EXCEPT ![r.by] = @ \ {r.msg}]
  /\ todo' = [todo EXCEPT ![r.by] = Rest(@)]
  /\ pc' = [pc EXCEPT ![r.by] = "publish"]

\* then recorded as the board's, and the answer goes to the member, if it is
\* still waiting for it.
HubRecords(r) ==
  /\ r \in put
  /\ r.id \in tagged
  /\ source' = With(source, r.id, r.by)
  /\ put' = put \ {r}
  /\ IF pc[r.by] = "wait" /\ Min(todo[r.by]) = r.msg
     THEN Answered(r) /\ UNCHANGED <<netLast, batch, keys>>
     ELSE UNCHANGED <<trans, queue, memory>>
  /\ UNCHANGED <<posts, msgs, last, faults, saving>>

-----------------------------------------------------------------------------
(* A member: do_poll.                                                      *)

\* publish_network_messages begins: the queue, sorted.
ToPublish(m) ==
  /\ pc' = [pc EXCEPT ![m] = "publish"]
  /\ todo' = [todo EXCEPT ![m] = queue[m]]

\* get_last_msg_id: int('') raises ValueError, which ends the poller's thread.
Stop(m) ==
  /\ pc[m] = "poll"
  /\ last[m] = Blank
  /\ pc' = [pc EXCEPT ![m] = "stopped"]
  /\ UNCHANGED <<posts, msgs, source, trans, queue, last, netLast, batch, keys,
               todo, put, faults, saving>>

\* poll_network_for_messages pulls.
Pull(m) ==
  /\ pc[m] = "poll"
  /\ last[m] # Blank
  /\ \E s \in Answers(m) :
       IF s = {}
       THEN ToPublish(m) /\ UNCHANGED <<batch, keys>>
       ELSE /\ batch' = [batch EXCEPT ![m] = s]
            /\ keys' = [keys EXCEPT ![m] = DOMAIN trans[m]]
            /\ pc' = [pc EXCEPT ![m] = "store"]
            /\ UNCHANGED todo
  /\ UNCHANGED <<posts, msgs, source, trans, queue, last, netLast, put, faults, saving>>

\* There is no answer, or one that is refused (a token too old, a clock that is
\* slow, a key that is not known): the poller goes on to publish.
PullFails(m) ==
  /\ pc[m] = "poll"
  /\ last[m] # Blank
  /\ faults < MaxFaults
  /\ faults' = faults + 1
  /\ ToPublish(m)
  /\ UNCHANGED <<posts, msgs, source, trans, queue, last, netLast, batch, keys, put, saving>>

\* mutant of LocalParent: the number at the hub is kept
LocalParentUntranslated(m, parent) == IF parent \in keys[m] THEN parent ELSE None

\* The parent of a pulled message, if it was translated before this poll began:
\* keys[m] does not find those stored since, which are numbers among strings.
LocalParent(m, parent) == IF parent \in keys[m] THEN trans[m][parent] ELSE None

\* A message is stored, whether or not its id is in trans: its id is a number,
\* and the keys are strings.
Store(m) ==
  /\ pc[m] = "store"
  /\ batch[m] # {}
  /\ LET msg == msgs[Hub][Min(batch[m])] IN Save(m, msg.post, LocalParent(m, msg.parent))
  /\ pc' = [pc EXCEPT ![m] = "record"]
  /\ UNCHANGED <<posts, source, trans, queue, last, netLast, batch, keys,
               todo, put, faults, saving>>

Record(m) ==
  /\ pc[m] = "record"
  /\ LET h == Min(batch[m])
         saved == Max({i \in DOMAIN msgs[m] : msgs[m][i].post = msgs[Hub][h].post})
     IN  /\ trans' = [trans EXCEPT ![m] = With(@, h, saved)]
         /\ netLast' = [netLast EXCEPT ![m] = Max({@, h - 1})]
  /\ batch' = [batch EXCEPT ![m] = Rest(@)]
  /\ pc' = [pc EXCEPT ![m] = "store"]
  /\ UNCHANGED <<posts, msgs, source, queue, last, keys, todo, put, faults, saving>>

\* When the whole batch is stored, the last file is opened, which empties it,
OpenLast(m) ==
  /\ pc[m] = "store"
  /\ batch[m] = {}
  /\ last' = [last EXCEPT ![m] = Blank]
  /\ pc' = [pc EXCEPT ![m] = "write"]
  /\ UNCHANGED <<posts, msgs, source, trans, queue, netLast, batch, keys,
               todo, put, faults, saving>>

\* and written.
WriteLast(m) ==
  /\ pc[m] = "write"
  /\ last' = [last EXCEPT ![m] = netLast[m]]
  /\ ToPublish(m)
  /\ UNCHANGED <<posts, msgs, source, trans, queue, netLast, batch, keys, put, faults, saving>>

\* Where the hub has a message's parent: one of the keys of trans with it.
HubParents(m, parent) ==
  LET found == {i \in DOMAIN trans[m] : trans[m][i] = parent} IN
    IF parent = None \/ found = {} THEN {None} ELSE found

\* push_rest
Push(m) ==
  /\ pc[m] = "publish"
  /\ todo[m] # {}
  /\ LET i == Min(todo[m]) IN
       \E parent \in HubParents(m, msgs[m][i].parent) :
         put' = put \cup {[by |-> m, msg |-> i, post |-> msgs[m][i].post,
                           parent |-> parent, id |-> 0]}
  /\ pc' = [pc EXCEPT ![m] = "wait"]
  /\ UNCHANGED <<posts, msgs, source, trans, queue, last, netLast, batch, keys,
               todo, faults, saving>>

\* mutant of PushFails: the message is taken from the queue
PushFailsDequeued(m) ==
  /\ pc[m] = "wait"
  /\ faults < MaxFaults
  /\ faults' = faults + 1
  /\ put' = {r \in put : r.by # m}
  /\ queue' = [queue EXCEPT ![m] = @ \ {Min(todo[m])}]
  /\ todo' = [todo EXCEPT ![m] = Rest(@)]
  /\ pc' = [pc EXCEPT ![m] = "publish"]
  /\ UNCHANGED <<posts, msgs, source, trans, last, netLast, batch, keys, saving>>

\* No answer comes, or the hub refuses the message: it stays in the queue.
PushFails(m) ==
  /\ pc[m] = "wait"
  /\ faults < MaxFaults
  /\ faults' = faults + 1
  /\ \/ put' = put
     \/ put' = {r \in put : r.by # m}
  /\ todo' = [todo EXCEPT ![m] = Rest(@)]
  /\ pc' = [pc EXCEPT ![m] = "publish"]
  /\ UNCHANGED <<posts, msgs, source, trans, queue, last, netLast, batch, keys, saving>>

Sleep(m) ==
  /\ pc[m] = "publish"
  /\ todo[m] = {}
  /\ pc' = [pc EXCEPT ![m] = "poll"]
  /\ UNCHANGED <<posts, msgs, source, trans, queue, last, netLast, batch, keys,
               todo, put, faults, saving>>

\* The member's board ends and is started again: its sessions end too.  (So may it be
\* as often as its poller stops, whatever the bound.)
Crash(m) ==
  /\ faults < MaxFaults \/ pc[m] = "stopped"
  /\ faults' = IF pc[m] = "stopped" THEN faults ELSE faults + 1
  /\ pc' = [pc EXCEPT ![m] = "poll"]
  /\ batch' = [batch EXCEPT ![m] = {}]
  /\ todo' = [todo EXCEPT ![m] = {}]
  /\ netLast' = [netLast EXCEPT ![m] = -1]
  /\ saves' = {a \in saves : a[1] # m}
  /\ cut' = cut \cup {a \in saves : a[1] = m}
  /\ UNCHANGED <<posts, msgs, source, trans, queue, last, keys, put, tagged>>

\* Poller and hub, but for faults.
MemberStep(m) ==
  Stop(m) \/ Pull(m) \/ Store(m) \/ Record(m) \/ OpenLast(m) \/ WriteLast(m) \/ Push(m) \/ Sleep(m)

HubStep == \E r \in put : HubSaves(r) \/ HubTags(r) \/ HubRecords(r)

Next ==
  \/ \E b \in Board : \E parent \in {None} \cup Readable(b) : UserPosts(b, parent)
  \/ \E a \in saves : UserSaves(a[1], a[2]) \/ SaveIsCut(a[1], a[2])
  \/ HubStep
  \/ \E m \in Member : MemberStep(m) \/ PullFails(m) \/ PushFails(m) \/ Crash(m)

Fairness == WF_vars(HubStep) /\ \A m \in Member : WF_vars(MemberStep(m))

Spec == Init /\ [][Next]_vars /\ Fairness

-----------------------------------------------------------------------------
(* Properties.                                                             *)

PostsOf(b) == {i \in DOMAIN posts : posts[i].by = b}
On(b) == {msgs[b][i].post : i \in DOMAIN msgs[b]}

\* On every board, a message is saved as a reply to no message or to the one that
\* its author replied to; and trans says which message of the hub is which.
ThreadsFaithful ==
  /\ \A b \in Board : \A i \in DOMAIN msgs[b] :
       LET msg == msgs[b][i] IN
         msg.parent # None => msgs[b][msg.parent].post = posts[msg.post].to
  /\ \A m \in Member : \A h \in DOMAIN trans[m] :
       msgs[m][trans[m][h]].post = msgs[Hub][h].post

\* A message that a member's user posts is queued until the hub has it, but for
\* one whose session was killed before it was queued: it stays where it is.
QueuedOrPublished ==
  \A m \in Member : \A i \in DOMAIN msgs[m] :
    msgs[m][i].post \in PostsOf(m) =>
      i \in queue[m] \/ msgs[m][i].post \in On(Hub) \/ <<m, i>> \in saves \cup cut

\* While no answer is lost and no member crashes, no board saves a message twice,
\* and in particular none pulls what it has published.
SavedOnce ==
  faults = 0 => \A b \in Board : Cardinality(On(b)) = Len(msgs[b])

\* A message that is tagged at the hub before the member has stored or asked for one
\* with a higher number gets to that member in the end, unless a full answer leaves
\* it out or the poller has stopped.  (The others do not: last is beyond them.)
IsServed(p, m) ==
  \E i \in tagged :
    /\ msgs[Hub][i].post = p
    /\ i - 1 > Max({0, last[m], netLast[m]})
    /\ \A j \in batch[m] : j <= i
Reaches(p, m)   == p \in On(m)
IsLeftOut(p, m) ==
  /\ Cardinality(batch[m]) = Batch
  /\ \E i \in tagged \ batch[m] : msgs[Hub][i].post = p /\ i < Max(batch[m])
HasStopped(m)   == pc[m] = "stopped"
=============================================================================
